---- MODULE Spec2Model ----
(***************************************************************************)
(* Verification model of nexus-iq: the outbound Riot API transport client  *)
(* (app/internal/riot_api/base.py), the ranked-entry reconciliation and    *)
(* the match ingestion of app/internal/controllers/summoners.py, over the  *)
(* SQLModel tables of app/internal/models.py.                              *)
(*                                                                         *)
(* Three specifications share the variables; each drives one subsystem     *)
(* and leaves the others at their initial value:                           *)
(*   SpecTransport  one transport request against a scripted upstream      *)
(*   SpecLeagues    repeated update_leagues calls followed by the flush    *)
(*   SpecIngest     two concurrent update_matches runs on one database     *)
(***************************************************************************)
EXTENDS Integers, Sequences, FiniteSets, TLC

\* ------------------------------------------------------------------------
\* Bounds
\* ------------------------------------------------------------------------

\* Number of answers the scripted upstream holds for one request.
ScriptLen == 3

\* Longest list of ranked entries the upstream returns for one player.
MaxFetched == 2

\* Longest list of recent matches one update_matches call processes.
MaxMatches == 1

\* Most participants a match payload carries.
MaxParticipants == 1

\* Last second the clock reaches.
MaxClock == 32

\* Longest list of match ids the upstream returns to get_recent_matches.
MaxIds == 2

\* ClientSession objects constructed by init_session in one run.
MaxSessions == 3

\* ------------------------------------------------------------------------
\* State
\* ------------------------------------------------------------------------

VARIABLES
    http_session,   \* the shared aiohttp session of internal/session.py
    req,            \* the transport request in flight (RiotAPIBase._request)
    db_summoners,   \* table summoners: rows [id, puuid, riot_id]
    db_leagues,     \* table summoner_leagues: rows [id, summoner_id, league_id, ...]
    lg,             \* the update_leagues call in progress and its SQLAlchemy session
    unique_queues,  \* history: every fetched list so far had one entry per queue type
    db_matches,     \* table matches: rows [id, match_id, by]
    db_teams,       \* table match_teams: rows [id, match, team_id, by]
    db_participants,\* table match_participants: rows [id, match, team, puuid, by]
    db_runes,       \* table match_participant_runes: rows [id, participant, ...]
    run,            \* per worker: its update_matches call and SQLAlchemy session
    clock,          \* datetime.now(timezone.utc), in seconds
    upd,            \* the find_and_update / update call in progress
    fc,             \* the RiotAPIFacade call in progress
    cl,             \* the domain-client call or routing conversion in progress
    foc,            \* the find_or_create call in progress
    tr,             \* the exception being translated by riot_exception_to_http
    ss,             \* internal/session.py: _session, _lock, the sessions made, the coroutines
    refreshed_at    \* history: when update() last completed a refresh of Player (-1: never)

matchVars == <<db_matches, db_teams, db_participants, db_runes, run>>

readVars == <<clock, upd, fc, cl, foc, tr, ss, refreshed_at>>

\* ------------------------------------------------------------------------
\* Transport client: app/internal/riot_api/base.py
\* ------------------------------------------------------------------------


\* Number of attempts of retry_middleware: `for _ in range(3)`.
RetryAttempts == 3

\* HTTP statuses the upstream may answer with.
Statuses == {200, 304, 400, 401, 403, 404, 429, 500, 503}

\* The three transport methods of RiotAPIBase.
Methods == {"_request", "_request_list", "_request_raw_list"}

\* Response bodies. "A" and "B" are JSON of the shape the method expects (an
\* object of the response model, a list of items of the item model, a list of
\* strings); "malformed" cannot be decoded by response.json(); "numbers" is
\* the JSON list [1, 2]; "null" is the JSON value null.
Bodies == {"A", "B", "malformed", "numbers", "null"}

ExpectedShape(body) == body \in {"A", "B"}

\* Header values are strings, written as sequences of characters.
DecimalDigits == <<"0", "1", "2", "3", "4", "5", "6", "7", "8", "9">>

IsDecimal(text) ==
    /\ text # <<>>
    /\ \A i \in DOMAIN text : \E d \in DOMAIN DecimalDigits : DecimalDigits[d] = text[i]

DigitValue(char) == (CHOOSE d \in DOMAIN DecimalDigits : DecimalDigits[d] = char) - 1

\* int(text) for a text of decimal digits.
RECURSIVE IntOf(_)
IntOf(text) ==
    IF text = <<>> THEN 0
    ELSE 10 * IntOf(SubSeq(text, 1, Len(text) - 1)) + DigitValue(text[Len(text)])

\* Retry-After header of a 429: absent ({}), seconds, or an HTTP date.
RetryAfterHeaders == {<<"3", "0">>, <<"0">>, <<"W", "e", "d">>}

RetryAfterValues == {{}} \cup {{h} : h \in RetryAfterHeaders}

\* One upstream answer: a response, or a connect timeout raised by the handler.
Answers ==
    {[kind |-> "response", status |-> s, body |-> b, retry_after |-> {}] :
        s \in {200, 304}, b \in Bodies}
    \cup {[kind |-> "response", status |-> s, body |-> "", retry_after |-> {}] :
        s \in Statuses \ {200, 304, 429}}
    \cup {[kind |-> "response", status |-> 429, body |-> "", retry_after |-> r] :
        r \in RetryAfterValues}
    \cup {[kind |-> "connect_timeout", status |-> 0, body |-> "", retry_after |-> {}]}

Scripts == [1..ScriptLen -> Answers]

\* "Nothing raised / nothing returned yet"; status_code 0 stands for None.
NoResult == [kind |-> "none", status_code |-> 0, retry_after |-> {}, body |-> ""]

Raise(kind, code, retry) ==
    [kind |-> kind, status_code |-> code, retry_after |-> retry, body |-> ""]

\* aiohttp ClientResponse.ok, used by base.py: True when status is below 400.
ResponseOk(status) == status < 400

\* Lines 273-277: response.headers.get("Retry-After") and
\* int(retry_after) if retry_after else None; int() raises ValueError on a
\* text that is not a number.
RateLimited(header) ==
    IF header = {} THEN Raise("RiotAPIRateLimitError", 429, {})
    ELSE LET text == CHOOSE h \in header : TRUE
         IN  IF text = <<>> THEN Raise("RiotAPIRateLimitError", 429, {})
             ELSE IF IsDecimal(text)
             THEN Raise("RiotAPIRateLimitError", 429, {IntOf(text)})
             ELSE Raise("ValueError", 0, {})

\* RiotAPIBase._check_response_status: NoResult when nothing is raised.
CheckResponseStatus(response) ==
    IF ResponseOk(response.status) THEN NoResult
    ELSE IF response.status = 401 THEN Raise("RiotAPIAuthenticationError", 401, {})
    ELSE IF response.status = 403 THEN Raise("RiotAPIAuthenticationError", 401, {})
    ELSE IF response.status = 404 THEN Raise("RiotAPINotFoundError", 404, {})
    ELSE IF response.status = 429
        THEN RateLimited(response.retry_after)
    ELSE IF 500 <= response.status /\ response.status < 600
        THEN Raise("RiotAPIServerError", response.status, {})
    ELSE Raise("RiotAPIError", response.status, {})

\* RiotAPIBase._handle_response: status check, then parse of the JSON body.
\* response_model.model_validate(data) rejects every JSON value that is not an
\* object of the model (pydantic's ValidationError is a ValueError).
HandleResponse(response) ==
    IF CheckResponseStatus(response) # NoResult THEN CheckResponseStatus(response)
    ELSE IF ~ExpectedShape(response.body) THEN Raise("RiotAPIError", 0, {})
    ELSE [kind |-> "value", status_code |-> response.status,
          retry_after |-> {}, body |-> response.body]

\* RiotAPIBase._request_list after the request, lines 161-168: the items of
\* the decoded JSON are validated one by one; iterating null raises TypeError,
\* which the except clause does not catch.
HandleListResponse(response) ==
    IF CheckResponseStatus(response) # NoResult THEN CheckResponseStatus(response)
    ELSE IF response.body = "null" THEN Raise("TypeError", 0, {})
    ELSE IF ~ExpectedShape(response.body) THEN Raise("RiotAPIError", 0, {})
    ELSE [kind |-> "value", status_code |-> response.status,
          retry_after |-> {}, body |-> response.body]

\* RiotAPIBase._request_raw_list after the request, lines 205-211: the decoded
\* JSON is returned as it is.
HandleRawListResponse(response) ==
    IF CheckResponseStatus(response) # NoResult THEN CheckResponseStatus(response)
    ELSE IF response.body = "malformed" THEN Raise("RiotAPIError", 0, {})
    ELSE [kind |-> "value", status_code |-> response.status,
          retry_after |-> {}, body |-> response.body]

\* What a transport method does with the response the session handed back.
MethodResult(method, response) ==
    IF method = "_request" THEN HandleResponse(response)
    ELSE IF method = "_request_list" THEN HandleListResponse(response)
    ELSE HandleRawListResponse(response)

\* retry_middleware, one pass of its loop after the handler answered:
\* TRUE when the middleware hands the response back to the caller.
MiddlewareReturns(response, attempts) ==
    ResponseOk(response.status) \/ attempts >= RetryAttempts

IdleReq ==
    [pc |-> "idle", method |-> "", script |-> <<>>, attempts |-> 0,
     checked |-> NoResult,
     result |-> NoResult]

\* init_session(**kwargs): the shared session is built from the caller's
\* keyword arguments; retry_middleware is attached only when they carry it.
InitSession ==
    /\ req.pc = "idle"
    /\ ~http_session.open
    /\ \E mw \in BOOLEAN :
        http_session' = [open |-> TRUE, retry_middleware |-> mw]
    /\ UNCHANGED <<req, db_summoners, db_leagues, lg, unique_queues>>
    /\ UNCHANGED matchVars
    /\ UNCHANGED readVars

\* close_session()
CloseSession ==
    /\ req.pc = "idle"
    /\ http_session.open
    /\ http_session' = [open |-> FALSE, retry_middleware |-> FALSE]
    /\ UNCHANGED <<req, db_summoners, db_leagues, lg, unique_queues>>
    /\ UNCHANGED matchVars
    /\ UNCHANGED readVars

\* A transport method up to `await self._session.get(url)`; the upstream's
\* next answers are fixed here so that a request can be judged against them.
StartRequest ==
    /\ req.pc = "idle"
    /\ http_session.open
    /\ \E method \in Methods, script \in Scripts :
        req' = [IdleReq EXCEPT !.pc = "sending", !.method = method,
                               !.script = script]
    /\ UNCHANGED <<http_session, db_summoners, db_leagues, lg, unique_queues>>
    /\ UNCHANGED matchVars
    /\ UNCHANGED readVars

\* One call of the request handler, and what the session and _request do with
\* its outcome: retry_middleware (when installed) loops, a connect timeout
\* becomes RiotAPITimeoutError, a response goes to _handle_response.
Attempt ==
    /\ req.pc = "sending"
    /\ req.attempts < ScriptLen
    /\ LET n == req.attempts + 1
           answer == req.script[n]
       IN  IF answer.kind = "connect_timeout"
           THEN req' = [req EXCEPT !.attempts = n, !.pc = "done",
                                   !.result = Raise("RiotAPITimeoutError", 504, {})]
           ELSE IF http_session.retry_middleware /\ ~MiddlewareReturns(answer, n)
           THEN req' = [req EXCEPT !.attempts = n]
           ELSE req' = [req EXCEPT !.attempts = n, !.pc = "done",
                                   !.checked = CheckResponseStatus(answer),
                                   !.result = MethodResult(req.method, answer)]
    /\ UNCHANGED <<http_session, db_summoners, db_leagues, lg, unique_queues>>
    /\ UNCHANGED matchVars
    /\ UNCHANGED readVars

\* _request returns or raises to its caller; the client is ready for the next call.
ReturnToCaller ==
    /\ req.pc = "done"
    /\ req' = IdleReq
    /\ UNCHANGED <<http_session, db_summoners, db_leagues, lg, unique_queues>>
    /\ UNCHANGED matchVars
    /\ UNCHANGED readVars

\* ------------------------------------------------------------------------
\* Persistence: tables of app/internal/models.py (committed rows)
\* ------------------------------------------------------------------------


\* The cached player whose ranked entries are reconciled.
Player == "P1"

LeagueIds == {"L1", "L2", "L3"}

\* Queue a league belongs to (a league id names one league of one queue).
QueueOf(league_id) == IF league_id = "L2" THEN "RANKED_FLEX_SR" ELSE "RANKED_SOLO_5x5"

\* (wins, losses, league_points) of an entry.
StatLines == {<<10, 5, 50>>, <<12, 6, 75>>}

\* LeagueEntry as returned by the league client (riot_api/models.py).
LeagueEntries ==
    {[league_id |-> l, queue_type |-> QueueOf(l),
      wins |-> st[1], losses |-> st[2], league_points |-> st[3]] :
        l \in LeagueIds, st \in StatLines}

\* Fetched lists of at most MaxFetched entries, one entry per league.
FetchedLists ==
    {f \in UNION {[1..n -> LeagueEntries] : n \in 0..MaxFetched} :
        \A i, j \in DOMAIN f : f[i].league_id = f[j].league_id => i = j}

\* Row id 0 stands for id = None: an object not yet flushed.
Transient == 0

\* SummonerLeagues(...) built from a LeagueEntry (lines 70-78 and 118-126).
NewLeagueObject(entry) ==
    [id |-> Transient, league_id |-> entry.league_id, queue_type |-> entry.queue_type,
     wins |-> entry.wins, losses |-> entry.losses,
     league_points |-> entry.league_points]

LeagueObjects(fetched) == [i \in DOMAIN fetched |-> NewLeagueObject(fetched[i])]

RowAsObject(row) ==
    [id |-> row.id, league_id |-> row.league_id, queue_type |-> row.queue_type,
     wins |-> row.wins, losses |-> row.losses, league_points |-> row.league_points]

ObjectAsRow(obj, id, owner) ==
    [id |-> id, summoner_id |-> owner, league_id |-> obj.league_id,
     queue_type |-> obj.queue_type, wins |-> obj.wins, losses |-> obj.losses,
     league_points |-> obj.league_points]

RECURSIVE OrderById(_)
OrderById(rows) ==
    IF rows = {} THEN <<>>
    ELSE LET first == CHOOSE r \in rows : \A o \in rows : r.id <= o.id
         IN  <<first>> \o OrderById(rows \ {first})

\* Summoner.leagues as loaded by the relationship: the rows owned by the summoner.
LoadLeagues(rows, owner) ==
    LET owned == {r \in rows : r.summoner_id = owner}
        ordered == OrderById(owned)
    IN  [i \in DOMAIN ordered |-> RowAsObject(ordered[i])]

\* Primary keys the database hands out: the n smallest ids not in use.
RECURSIVE FreshIds(_, _)
FreshIds(used, n) ==
    IF n = 0 THEN <<>>
    ELSE LET id == CHOOSE k \in 1..(Cardinality(used) + 1) :
                        k \notin used /\ \A j \in 1..(k - 1) : j \in used
         IN  <<id>> \o FreshIds(used \cup {id}, n - 1)

SummonerRowId(puuid) ==
    IF \E r \in db_summoners : r.puuid = puuid
    THEN (CHOOSE r \in db_summoners : r.puuid = puuid).id
    ELSE Transient

\* ------------------------------------------------------------------------
\* SQLAlchemy unit of work for one summoner's leagues collection
\* ------------------------------------------------------------------------

\* Loaded entries that left Summoner.leagues without being deleted: the flush
\* sets their summoner_id to NULL (no delete-orphan cascade on the relationship).
Orphans(loaded, coll, deleted) ==
    {loaded[i].id : i \in DOMAIN loaded}
        \ ({coll[i].id : i \in DOMAIN coll} \cup deleted)

\* summoner_leagues.summoner_id is declared nullable=False (models.py:89).
FlushFails(loaded, coll, deleted) == Orphans(loaded, coll, deleted) # {}

\* Rows after a successful flush and commit of the session.
FlushedRows(rows, owner, coll, deleted) ==
    LET kept == {r \in rows : r.id \notin deleted /\ r.id \notin
                    {coll[i].id : i \in DOMAIN coll}}
        newIdx == {i \in DOMAIN coll : coll[i].id = Transient}
        ids == FreshIds({r.id : r \in rows}, Len(coll))
    IN  kept
        \cup {ObjectAsRow(coll[i], coll[i].id, owner) :
                i \in {j \in DOMAIN coll : coll[j].id # Transient /\ coll[j].id \notin deleted}}
        \cup {ObjectAsRow(coll[i], ids[i], owner) : i \in newIdx}

\* The collection after the flush: new objects carry their primary key.
FlushedColl(rows, coll) ==
    LET ids == FreshIds({r.id : r \in rows}, Len(coll))
    IN  [i \in DOMAIN coll |->
            IF coll[i].id = Transient THEN [coll[i] EXCEPT !.id = ids[i]] ELSE coll[i]]

\* ------------------------------------------------------------------------
\* update_leagues: app/internal/controllers/summoners.py lines 113-144
\* ------------------------------------------------------------------------

\* filter(lambda riot_league: riot_league.league_id == league.league_id, ...)
MatchingFetched(league, leagues_at_riot) ==
    SelectSeq(leagues_at_riot, LAMBDA r : r.league_id = league.league_id)

\* Lines 138-140: the fields copied from the fetched entry.
Overwrite(league, riot_league) ==
    [league EXCEPT !.wins = riot_league.wins, !.losses = riot_league.losses,
                   !.league_points = riot_league.league_points]

\* Mutant of ReplaceCollection: the fetched entries are appended to the list.
ReplaceCollection_Extend(old, leagues_at_riot) == old \o leagues_at_riot

\* Line 135: summoner.leagues = leagues_at_riot.
ReplaceCollection(old, leagues_at_riot) == leagues_at_riot

\* One iteration of the loop of line 128 over the list loaded at its start.
\* st: [coll, deleted, rows, error, commits]; coll is the current
\* Summoner.leagues, commits counts the commits of line 143.
LeagueIteration(st, loaded, leagues_at_riot, index, owner) ==
    LET league == loaded[index]
        hits == MatchingFetched(league, leagues_at_riot)
    IN  IF hits = <<>>
        THEN \* session.delete(summoner.leagues[index])
             IF index \notin DOMAIN st.coll
             THEN [st EXCEPT !.error = "IndexError"]
             ELSE IF st.coll[index].id = Transient
             THEN [st EXCEPT !.error = "InvalidRequestError"]
             ELSE [st EXCEPT !.deleted = @ \cup {st.coll[index].id},
                             !.coll = ReplaceCollection(st.coll, leagues_at_riot)]
        ELSE \* overwrite, session.add(league), session.commit()
             LET updated == Overwrite(league, hits[1])
                 coll == IF index \in DOMAIN st.coll /\ st.coll[index].id = league.id
                         THEN [st.coll EXCEPT ![index] = updated] ELSE st.coll
             IN  IF FlushFails(loaded, coll, st.deleted)
                 THEN [st EXCEPT !.error = "IntegrityError"]
                 ELSE [st EXCEPT !.rows = FlushedRows(st.rows, owner, coll, st.deleted),
                                 !.coll = FlushedColl(st.rows, coll),
                                 !.deleted = {},
                                 !.commits = @ + 1]

RECURSIVE LeagueLoop(_, _, _, _, _)
LeagueLoop(st, loaded, leagues_at_riot, index, owner) ==
    IF index > Len(loaded) \/ st.error # "none" THEN st
    ELSE LeagueLoop(LeagueIteration(st, loaded, leagues_at_riot, index, owner),
                    loaded, leagues_at_riot, index + 1, owner)

\* update_leagues(summoner, leagues, session) on the committed rows.
RunUpdateLeagues(rows, owner, fetched) ==
    LET loaded == LoadLeagues(rows, owner)
    IN  LeagueLoop([coll |-> loaded, deleted |-> {}, rows |-> rows, error |-> "none",
                    commits |-> 0],
                   loaded, LeagueObjects(fetched), 1, owner)

IdleLeagues ==
    [pc |-> "idle", loaded |-> <<>>, fetched |-> <<>>, coll |-> <<>>,
     deleted |-> {}, error |-> "none"]

\* At most one entry per queue type in a sequence of entries.
OnePerQueue(entries) ==
    \A i, j \in DOMAIN entries :
        entries[i].queue_type = entries[j].queue_type => i = j

\* create(), lines 67-95, for a player not yet cached: the profile is stored
\* with the ranked entries the upstream returned.
CreateProfile ==
    /\ lg.pc = "idle"
    /\ SummonerRowId(Player) = Transient
    /\ \E fetched \in FetchedLists :
        LET sid == FreshIds({r.id : r \in db_summoners}, 1)[1]
        IN  /\ db_summoners' = db_summoners
                \cup {[id |-> sid, puuid |-> Player, riot_id |-> "N1",
                       updated_at |-> clock]}
            /\ db_leagues' = FlushedRows(db_leagues, sid, LeagueObjects(fetched), {})
            /\ unique_queues' = (unique_queues /\ OnePerQueue(fetched))
    /\ UNCHANGED <<lg, http_session, req>>
    /\ UNCHANGED matchVars
    /\ UNCHANGED readVars

\* update_leagues(summoner, leagues, session), called by update() line 289.
\* The commits of line 143 are part of the call; what it leaves pending in the
\* session stays in lg until the caller commits.
UpdateLeagues ==
    /\ lg.pc = "idle"
    /\ SummonerRowId(Player) # Transient
    /\ \E fetched \in FetchedLists :
        LET owner == SummonerRowId(Player)
            out == RunUpdateLeagues(db_leagues, owner, fetched)
        IN  /\ db_leagues' = out.rows
            /\ lg' = [pc |-> IF out.error = "none" THEN "returned" ELSE "raised",
                      loaded |-> LoadLeagues(db_leagues, owner),
                      fetched |-> fetched, coll |-> out.coll,
                      deleted |-> out.deleted, error |-> out.error]
            /\ unique_queues' = (unique_queues /\ OnePerQueue(fetched))
    /\ UNCHANGED <<db_summoners, http_session, req>>
    /\ UNCHANGED matchVars
    /\ UNCHANGED readVars

\* The caller's next flush and commit of the same session (update_matches
\* line 163/177/268, or update line 294).
CommitSession ==
    /\ lg.pc = "returned"
    /\ LET owner == SummonerRowId(Player)
       IN  IF FlushFails(lg.loaded, lg.coll, lg.deleted)
           THEN /\ lg' = [lg EXCEPT !.pc = "raised", !.error = "IntegrityError"]
                /\ UNCHANGED db_leagues
           ELSE /\ db_leagues' = FlushedRows(db_leagues, owner, lg.coll, lg.deleted)
                /\ lg' = [lg EXCEPT !.pc = "committed", !.deleted = {},
                                    !.coll = FlushedColl(db_leagues, lg.coll)]
    /\ UNCHANGED <<db_summoners, unique_queues, http_session, req>>
    /\ UNCHANGED matchVars
    /\ UNCHANGED readVars

\* The request ends and the session of db.get_session closes: whatever was
\* not committed is discarded (db.py lines 26-28).
EndRequest ==
    /\ lg.pc \in {"returned", "raised", "committed"}
    /\ lg' = IdleLeagues
    /\ UNCHANGED <<db_summoners, db_leagues, unique_queues, http_session, req>>
    /\ UNCHANGED matchVars
    /\ UNCHANGED readVars

InitDb ==
    /\ db_summoners = {}
    /\ db_leagues = {}
    /\ lg = IdleLeagues
    /\ unique_queues = TRUE

NextLeagues ==
    \/ CreateProfile
    \/ UpdateLeagues
    \/ CommitSession
    \/ EndRequest

\* ------------------------------------------------------------------------
\* Match ingestion: update_matches, summoners.py lines 154-268, run by two
\* workers (server processes) that share the database and own one SQLAlchemy
\* session each. One action is one database round trip or one upstream call
\* together with the Python code up to the next one.
\* ------------------------------------------------------------------------

Workers == {1, 2}

MatchIds == {"M1", "M2"}

Puuids == {"P1", "P2"}

\* Display names (riotIdGameName and riotIdTagline taken together): the
\* name each account carries in the payloads.
RiotIdOf(puuid) == IF puuid = "P1" THEN "N1" ELSE "N2"

TeamIds == {100, 200}

\* info.teams of a payload: the team ids in payload order.
TeamLists == {<<100, 200>>, <<100>>}

Style(description, style) == [description |-> description, style |-> style]

\* perks.styles of a participant: the usual two blocks, and a single block.
StyleLists ==
    {<<Style("primaryStyle", 8000), Style("subStyle", 8100)>>,
     <<Style("primaryStyle", 8000)>>}

Participants ==
    {[puuid |-> q, riot_id |-> RiotIdOf(q), team_id |-> t, styles |-> st] :
        q \in Puuids, t \in TeamIds, st \in StyleLists}

NoParticipant ==
    [puuid |-> "", riot_id |-> "", team_id |-> 0, styles |-> <<>>]

\* Lists of match ids that get_recent_matches may return (line 160).
MatchLists == UNION {[1..n -> MatchIds] : n \in 0..MaxMatches}

\* What riot_api.get_summoner(game_name, tag_line) may answer in create()
\* for a participant: the profile of that account, not found, or another error.
UpstreamProfiles(p) == {p.puuid, "not_found", "error"}

IdleRun ==
    [pc |-> "idle", queue |-> <<>>, match_id |-> "", match_row |-> 0,
     teams_left |-> <<>>, team_ids |-> [t \in TeamIds |-> 0],
     parts_left |-> 0, part |-> NoParticipant,
     pending_runes |-> {}, outcomes |-> <<>>, error |-> "none", failed_at |-> ""]

MatchExists_Never(match_id) == FALSE

\* get_match_by_match_id (lines 31-39) against the committed rows.
MatchExists(match_id) == \E r \in db_matches : r.match_id = match_id

\* get_summoner_by_name (lines 18-28) and get_summoner_by_puuid (lines 42-45).
SummonerByName(riot_id) == \E r \in db_summoners : r.riot_id = riot_id
SummonerByPuuid(puuid) == \E r \in db_summoners : r.puuid = puuid

\* matches.match_id is declared unique (models.py:117).
MatchIdTaken(match_id) == \E r \in db_matches : r.match_id = match_id

\* summoners.puuid is declared unique (models.py:45).
PuuidTaken(puuid) == \E r \in db_summoners : r.puuid = puuid

NextId(rows) == FreshIds({r.id : r \in rows}, 1)[1]

\* The rune rows of the session that a commit makes persistent.
CommittedRunes(w) ==
    LET pend == OrderById(run[w].pending_runes)
        ids == FreshIds({r.id : r \in db_runes}, Len(pend))
    IN  db_runes \cup {[pend[i] EXCEPT !.id = ids[i]] : i \in DOMAIN pend}

\* get_participant_runes (lines 147-151): the blocks with that description.
StyleBlocks(description, styles) ==
    SelectSeq(styles, LAMBDA x : x.description = description)

\* Lines 248-265 raise IndexError when a block is missing.
RunesBuildable(styles) ==
    /\ StyleBlocks("primaryStyle", styles) # <<>>
    /\ StyleBlocks("subStyle", styles) # <<>>

\* MatchParticipantRunes(...) of lines 251-264, pending in the session; its
\* row id is assigned by the commit that flushes it.
NewRunes(participant_id, styles, w) ==
    [id |-> participant_id, participant |-> participant_id,
     primary_style |-> StyleBlocks("primaryStyle", styles)[1].style,
     secondary_style |-> StyleBlocks("subStyle", styles)[1].style,
     by |-> w]

\* An exception leaves update_matches: the loop's locals are gone and the
\* session's pending objects are never committed.
Fail(r, error, where) ==
    [IdleRun EXCEPT !.pc = "failed", !.error = error, !.failed_at = where,
                    !.outcomes = Append(r.outcomes, <<r.match_id, "failed">>)]

OtherTables == <<http_session, req, db_leagues, lg, unique_queues>>

\* Line 160: await riot_api.get_recent_matches(...).
StartRun(w) ==
    /\ run[w].pc = "idle"
    /\ \E q \in MatchLists :
        run' = [run EXCEPT ![w] = [IdleRun EXCEPT !.pc = "loop", !.queue = q]]
    /\ UNCHANGED <<db_summoners, db_matches, db_teams, db_participants, db_runes>>
    /\ UNCHANGED OtherTables
    /\ UNCHANGED readVars

\* Lines 162-163 and 266-267: the next match of the list and its existence check.
CheckMatch(w) ==
    /\ run[w].pc = "loop"
    /\ run[w].queue # <<>>
    /\ LET m == Head(run[w].queue)
       IN  IF MatchExists(m)
           THEN run' = [run EXCEPT ![w].queue = Tail(@),
                                   ![w].outcomes = Append(@, <<m, "skipped">>)]
           ELSE \E teams \in TeamLists, n \in 1..MaxParticipants :
                run' = [run EXCEPT ![w].queue = Tail(@), ![w].match_id = m,
                                   ![w].pc = "insert_match",
                                   ![w].teams_left = teams, ![w].parts_left = n,
                                   ![w].team_ids = [t \in TeamIds |-> 0]]
    /\ UNCHANGED <<db_summoners, db_matches, db_teams, db_participants, db_runes>>
    /\ UNCHANGED OtherTables
    /\ UNCHANGED readVars

\* Lines 164-178: insert and commit of the Match row.
InsertMatch(w) ==
    /\ run[w].pc = "insert_match"
    /\ IF MatchIdTaken(run[w].match_id)
       THEN /\ run' = [run EXCEPT ![w] = Fail(@, "IntegrityError", "match")]
            /\ UNCHANGED <<db_matches, db_runes>>
       ELSE LET id == NextId(db_matches)
            IN  /\ db_matches' = db_matches
                    \cup {[id |-> id, match_id |-> run[w].match_id, by |-> w]}
                /\ db_runes' = CommittedRunes(w)
                /\ run' = [run EXCEPT ![w].pc = "teams", ![w].match_row = id,
                                      ![w].pending_runes = {}]
    /\ UNCHANGED <<db_summoners, db_teams, db_participants>>
    /\ UNCHANGED OtherTables
    /\ UNCHANGED readVars

InsertTeam_OneThenParticipants(w) ==
    /\ run[w].pc = "teams"
    /\ run[w].teams_left # <<>>
    /\ LET t == Head(run[w].teams_left)
           id == NextId(db_teams)
       IN  /\ db_teams' = db_teams
                \cup {[id |-> id, match |-> run[w].match_row, team_id |-> t, by |-> w]}
           /\ run' = [run EXCEPT ![w].teams_left = Tail(@),
                                 ![w].team_ids[t] = id,
                                 ![w].pc = "find"]
    /\ UNCHANGED <<db_summoners, db_matches, db_participants, db_runes>>
    /\ UNCHANGED OtherTables
    /\ UNCHANGED readVars

InsertTeam_OtherKey(w) ==
    /\ run[w].pc = "teams"
    /\ run[w].teams_left # <<>>
    /\ LET t == Head(run[w].teams_left)
           id == NextId(db_teams)
       IN  /\ db_teams' = db_teams
                \cup {[id |-> id, match |-> run[w].match_row, team_id |-> t, by |-> w]}
           /\ run' = [run EXCEPT ![w].teams_left = Tail(@),
                                 ![w].team_ids = [k \in TeamIds |-> IF k = t THEN @[k] ELSE id],
                                 ![w].pc = IF Tail(run[w].teams_left) = <<>>
                                           THEN "find" ELSE "teams"]
    /\ UNCHANGED <<db_summoners, db_matches, db_participants, db_runes>>
    /\ UNCHANGED OtherTables
    /\ UNCHANGED readVars

\* Lines 185-204: insert and commit of one MatchTeam row with its bans and objectives.
InsertTeam(w) ==
    /\ run[w].pc = "teams"
    /\ run[w].teams_left # <<>>
    /\ LET t == Head(run[w].teams_left)
           id == NextId(db_teams)
       IN  /\ db_teams' = db_teams
                \cup {[id |-> id, match |-> run[w].match_row, team_id |-> t, by |-> w]}
           /\ run' = [run EXCEPT ![w].teams_left = Tail(@),
                                 ![w].team_ids[t] = id,
                                 ![w].pc = IF Tail(run[w].teams_left) = <<>>
                                           THEN "find" ELSE "teams"]
    /\ UNCHANGED <<db_summoners, db_matches, db_participants, db_runes>>
    /\ UNCHANGED OtherTables
    /\ UNCHANGED readVars

\* find_or_create, lines 100-108, for the next participant of the payload
\* (line 209-210): the lookup by display name.
FindByName(w) ==
    /\ run[w].pc = "find"
    /\ \E p \in Participants :
        run' = [run EXCEPT ![w].part = p,
                           ![w].pc = IF SummonerByName(p.riot_id)
                                     THEN "participant" ELSE "create"]
    /\ UNCHANGED <<db_summoners, db_matches, db_teams, db_participants, db_runes>>
    /\ UNCHANGED OtherTables
    /\ UNCHANGED readVars

\* create(), lines 62-69: the upstream lookup and the check by universal id.
CreateLookup(w) ==
    /\ run[w].pc = "create"
    /\ \E answer \in UpstreamProfiles(run[w].part) :
        run' = [run EXCEPT ![w] =
                  IF answer = "error" THEN Fail(@, "RiotAPIError", "find_or_create")
                  ELSE IF answer = "not_found" THEN [@ EXCEPT !.pc = "participant"]
                  ELSE IF SummonerByPuuid(answer) THEN [@ EXCEPT !.pc = "participant"]
                  ELSE [@ EXCEPT !.pc = "insert_summoner"]]
    /\ UNCHANGED <<db_summoners, db_matches, db_teams, db_participants, db_runes>>
    /\ UNCHANGED OtherTables
    /\ UNCHANGED readVars

\* create(), lines 70-95: insert and commit of the new profile. The profiles
\* created for participants are drawn unranked (no ranked entries).
InsertSummoner(w) ==
    /\ run[w].pc = "insert_summoner"
    /\ IF PuuidTaken(run[w].part.puuid)
       THEN /\ run' = [run EXCEPT ![w] = Fail(@, "IntegrityError", "summoner")]
            /\ UNCHANGED <<db_summoners, db_leagues, db_runes>>
       ELSE LET sid == NextId(db_summoners)
            IN  /\ db_summoners' = db_summoners
                    \cup {[id |-> sid, puuid |-> run[w].part.puuid,
                           riot_id |-> run[w].part.riot_id,
                           updated_at |-> clock]}
                /\ db_leagues' = FlushedRows(db_leagues, sid, LeagueObjects(<<>>), {})
                /\ db_runes' = CommittedRunes(w)
                /\ run' = [run EXCEPT ![w].pc = "participant",
                                      ![w].pending_runes = {}]
    /\ UNCHANGED <<db_matches, db_teams, db_participants>>
    /\ UNCHANGED <<http_session, req, lg, unique_queues>>
    /\ UNCHANGED readVars

\* Lines 211-265: insert and commit of the MatchParticipant row, then the
\* construction of its rune page, which is only added to the session.
InsertParticipant(w) ==
    /\ run[w].pc = "participant"
    /\ LET p == run[w].part
           team == run[w].team_ids[p.team_id]
           id == NextId(db_participants)
           last == run[w].parts_left = 1
       IN  IF team = 0 \/ ~PuuidTaken(p.puuid)
           THEN /\ run' = [run EXCEPT ![w] = Fail(@, "IntegrityError", "participant")]
                /\ UNCHANGED <<db_participants, db_runes>>
           ELSE /\ db_participants' = db_participants
                    \cup {[id |-> id, match |-> run[w].match_row, team |-> team,
                           puuid |-> p.puuid, by |-> w]}
                /\ db_runes' = CommittedRunes(w)
                /\ run' = [run EXCEPT ![w] =
                      IF ~RunesBuildable(p.styles)
                      THEN Fail(@, "IndexError", "runes")
                      ELSE [@ EXCEPT
                              !.pending_runes = {NewRunes(id, p.styles, w)},
                              !.parts_left = @ - 1,
                              !.part = NoParticipant,
                              !.pc = IF last THEN "loop" ELSE "find",
                              !.match_id = IF last THEN "" ELSE @,
                              !.match_row = IF last THEN 0 ELSE @,
                              !.team_ids = IF last THEN [t \in TeamIds |-> 0] ELSE @,
                              !.outcomes = IF last
                                           THEN Append(@, <<run[w].match_id, "ingested">>)
                                           ELSE @]]
    /\ UNCHANGED <<db_summoners, db_matches, db_teams>>
    /\ UNCHANGED OtherTables
    /\ UNCHANGED readVars

\* Line 268: the commit after the loop.
FinalCommit(w) ==
    /\ run[w].pc = "loop"
    /\ run[w].queue = <<>>
    /\ db_runes' = CommittedRunes(w)
    /\ run' = [run EXCEPT ![w].pc = "done", ![w].pending_runes = {}]
    /\ UNCHANGED <<db_summoners, db_matches, db_teams, db_participants>>
    /\ UNCHANGED OtherTables
    /\ UNCHANGED readVars

\* The call is over (returned or raised) and the session of db.get_session
\* closes; what was pending is discarded (db.py lines 26-28).
EndRun(w) ==
    /\ run[w].pc \in {"done", "failed"}
    /\ run' = [run EXCEPT ![w] = IdleRun]
    /\ UNCHANGED <<db_summoners, db_matches, db_teams, db_participants, db_runes>>
    /\ UNCHANGED OtherTables
    /\ UNCHANGED readVars

InitIngest ==
    /\ db_matches = {}
    /\ db_teams = {}
    /\ db_participants = {}
    /\ db_runes = {}
    /\ run = [w \in Workers |-> IdleRun]

NextIngest ==
    \E w \in Workers :
        \/ StartRun(w)
        \/ CheckMatch(w)
        \/ InsertMatch(w)
        \/ InsertTeam(w)
        \/ FindByName(w)
        \/ CreateLookup(w)
        \/ InsertSummoner(w)
        \/ InsertParticipant(w)
        \/ FinalCommit(w)
        \/ EndRun(w)

\* ------------------------------------------------------------------------
\* Profile refresh: is_summoner_ttl_expired, update and find_and_update,
\* app/internal/controllers/summoners.py lines 48-53 and 271-311
\* ------------------------------------------------------------------------

\* timedelta(minutes=SUMMONER_TTL_MINUTES) with SUMMONER_TTL_MINUTES = 0.5,
\* in seconds.
SummonerTtlSeconds == 30

IsSummonerTtlExpired_Strict(current_time, updated_at) ==
    current_time - updated_at > SummonerTtlSeconds

IsSummonerTtlExpired_Never(current_time, updated_at) == FALSE

IsSummonerTtlExpired_Always(current_time, updated_at) == TRUE

\* is_summoner_ttl_expired (line 53) for a profile last written at updated_at.
IsSummonerTtlExpired(current_time, updated_at) ==
    current_time - updated_at >= SummonerTtlSeconds

\* The stored profile row of a player (get_summoner_by_puuid, lines 42-45).
SummonerRow(puuid) == CHOOSE r \in db_summoners : r.puuid = puuid

\* What riot_api.get_summoner_by_puuid hands to update(): a profile with its
\* ranked entries, or None (facade.py lines 152-154). The profile carries the
\* name, region, level and icon of the cached one, or differs in one of them
\* (changed), which makes the Summoner object dirty at lines 283-287.
ProfilesAtRiot ==
    {[kind |-> "profile", leagues |-> f, changed |-> c] :
        f \in FetchedLists, c \in BOOLEAN}
    \cup {[kind |-> "None", leagues |-> <<>>, changed |-> FALSE]}

\* What riot_api.get_recent_matches answers inside update_matches (line 160):
\* no recent match, or the failure of the match-id list request.
RecentMatchesAtRiot == {"empty", "RiotAPIError"}

IdleUpdate ==
    [pc |-> "idle", age |-> 0, expired |-> FALSE, upstream_calls |-> 0,
     wrote |-> FALSE, cached |-> {}, result |-> {}, error |-> "none",
     at_riot |-> "none", cancelled_at |-> "",
     session |-> [loaded |-> <<>>, coll |-> <<>>, deleted |-> {}]]

\* Time passes between requests.
Tick ==
    /\ upd.pc = "idle"
    /\ clock < MaxClock
    /\ clock' = clock + 1
    /\ UNCHANGED <<refreshed_at, tr, ss, upd, fc, cl, foc, db_summoners, db_leagues, lg, unique_queues,
                   http_session, req>>
    /\ UNCHANGED matchVars

\* find_and_update (lines 306-311) and update up to its first await (lines
\* 277-279): the freshness test, and for a fresh profile the return of line 297.
BeginUpdate ==
    /\ upd.pc = "idle"
    /\ IF ~SummonerByPuuid(Player)
       THEN upd' = [IdleUpdate EXCEPT !.pc = "returned"]
       ELSE LET summoner == SummonerRow(Player)
                expired == IsSummonerTtlExpired(clock, summoner.updated_at)
            IN  upd' = [IdleUpdate EXCEPT
                          !.pc = IF expired THEN "await_profile" ELSE "returned",
                          !.age = clock - summoner.updated_at,
                          !.expired = expired,
                          !.upstream_calls = IF expired THEN 1 ELSE 0,
                          !.cached = {summoner},
                          !.result = IF expired THEN {} ELSE {summoner}]
    /\ UNCHANGED <<refreshed_at, tr, ss, clock, fc, cl, foc, db_summoners, db_leagues, lg, unique_queues,
                   http_session, req>>
    /\ UNCHANGED matchVars

\* Summoner.updated_at is declared onupdate=func.now() (models.py lines
\* 67-74): an UPDATE of the row that does not set the column stamps it with
\* the time of the database.
OnUpdate(summoner, now) == [summoner EXCEPT !.updated_at = now]

\* update, lines 279-289, once riot_api.get_summoner_by_puuid has answered:
\* the field copies and update_leagues with its commits, up to the await of
\* update_matches (line 290), which suspends in riot_api.get_recent_matches
\* (line 160). What update_leagues left pending stays in the session. A
\* commit of line 143 also flushes the Summoner object when a copied field
\* differs from the stored one.
RefreshLeagues ==
    /\ upd.pc = "await_profile"
    /\ \E at_riot \in ProfilesAtRiot :
        LET summoner == SummonerRow(Player)
            loaded == LoadLeagues(db_leagues, summoner.id)
            out == RunUpdateLeagues(db_leagues, summoner.id, at_riot.leagues)
        IN  IF at_riot.kind = "None"
            THEN \* line 283: attribute access on None
                 /\ upd' = [upd EXCEPT !.pc = "raised", !.error = "AttributeError",
                                       !.at_riot = at_riot.kind]
                 /\ UNCHANGED <<db_leagues, db_summoners>>
            ELSE /\ upd' = [upd EXCEPT
                              !.pc = IF out.error # "none" THEN "raised"
                                     ELSE "await_matches",
                              !.error = out.error,
                              !.at_riot = at_riot.kind,
                              !.upstream_calls = IF out.error # "none" THEN @ ELSE @ + 1,
                              !.wrote = \/ out.rows # db_leagues
                                        \/ at_riot.changed /\ out.commits > 0,
                              !.session = [loaded |-> loaded, coll |-> out.coll,
                                           deleted |-> out.deleted]]
                 /\ db_leagues' = out.rows
                 /\ db_summoners' =
                        IF at_riot.changed /\ out.commits > 0
                        THEN (db_summoners \ {summoner}) \cup {OnUpdate(summoner, clock)}
                        ELSE db_summoners
    /\ UNCHANGED <<refreshed_at, tr, ss, clock, fc, cl, foc, lg, unique_queues,
                   http_session, req>>
    /\ UNCHANGED matchVars

\* update_matches (for a player without recent matches) once
\* riot_api.get_recent_matches has answered, and update lines 291-297: the
\* commit of line 268, the new updated_at and the commit of line 294.
FinishUpdate ==
    /\ upd.pc = "await_matches"
    /\ \E recent \in RecentMatchesAtRiot :
        LET summoner == SummonerRow(Player)
            refreshed == [summoner EXCEPT !.updated_at = clock]
        IN  IF recent = "RiotAPIError"
            THEN /\ upd' = [upd EXCEPT !.pc = "raised", !.error = "RiotAPIError"]
                 /\ UNCHANGED <<db_summoners, db_leagues, refreshed_at>>
            ELSE IF FlushFails(upd.session.loaded, upd.session.coll, upd.session.deleted)
            THEN \* the commit of line 268
                 /\ upd' = [upd EXCEPT !.pc = "raised", !.error = "IntegrityError"]
                 /\ UNCHANGED <<db_summoners, db_leagues, refreshed_at>>
            ELSE /\ db_leagues' = FlushedRows(db_leagues, summoner.id,
                                              upd.session.coll, upd.session.deleted)
                 /\ db_summoners' = (db_summoners \ {summoner}) \cup {refreshed}
                 /\ upd' = [upd EXCEPT !.pc = "returned", !.result = {refreshed},
                                       !.wrote = TRUE]
                 /\ refreshed_at' = clock
    /\ UNCHANGED <<tr, ss, clock, fc, cl, foc, lg, unique_queues, http_session, req>>
    /\ UNCHANGED matchVars

\* The caller cancels the request while update is suspended in an awaited
\* upstream call: CancelledError is raised at the await and leaves update.
CancelUpdate ==
    /\ upd.pc \in {"await_profile", "await_matches"}
    /\ upd' = [upd EXCEPT !.pc = "cancelled", !.error = "CancelledError",
                          !.cancelled_at = upd.pc]
    /\ UNCHANGED <<refreshed_at, tr, ss, clock, fc, cl, foc, db_summoners, db_leagues, lg, unique_queues,
                   http_session, req>>
    /\ UNCHANGED matchVars

\* The request is answered; the next one may start.
EndUpdate ==
    /\ upd.pc \in {"returned", "raised", "cancelled"}
    /\ upd' = IdleUpdate
    /\ UNCHANGED <<refreshed_at, tr, ss, clock, fc, cl, foc, db_summoners, db_leagues, lg, unique_queues,
                   http_session, req>>
    /\ UNCHANGED matchVars

InitUpdate ==
    /\ clock = 0
    /\ upd = IdleUpdate
    /\ refreshed_at = -1

NextUpdate ==
    \/ CreateProfile
    \/ Tick
    \/ BeginUpdate
    \/ RefreshLeagues
    \/ FinishUpdate
    \/ CancelUpdate
    \/ EndUpdate

\* ------------------------------------------------------------------------
\* Facade: app/internal/riot_api/facade.py. One action is one client call
\* (one awaited request of a domain client) and the facade code around it.
\* ------------------------------------------------------------------------

\* Exceptions a client call raises (riot_api/exceptions.py); RiotAPIError also
\* stands for a response that does not parse.
ErrorKinds ==
    {"RiotAPIValidationError", "RiotAPIAuthenticationError", "RiotAPINotFoundError",
     "RiotAPIRateLimitError", "RiotAPIServerError", "RiotAPITimeoutError",
     "RiotAPIError"}

StepOutcomes == {"ok"} \cup ErrorKinds

NoError == [kind |-> "none", message |-> ""]

\* The exception object a client raised.
ClientError(kind) == [kind |-> kind, message |-> "client"]

\* The client calls of get_summoner (lines 93-108) and of
\* get_summoner_by_puuid (lines 136-139), in order.
ProfileSteps == <<"account", "region", "summoner", "leagues">>

FacadeOps == {"get_summoner", "get_summoner_by_puuid", "get_recent_matches"}

\* Match-id lists the match client may return (line 217).
IdLists == UNION {[1..n -> MatchIds] : n \in 0..MaxIds}

Resignal_AsGeneric(step, error) == [kind |-> "RiotAPIError", message |-> "client"]

\* get_summoner, lines 92-108: what leaves the facade when the client call of
\* that step raised. Only step 1 sits in a try block (lines 92-95).
Resignal(step, error) ==
    IF step = 1 /\ error.kind = "RiotAPINotFoundError"
    THEN [kind |-> "RiotAPINotFoundError", message |-> "Summoner not found"]
    ELSE error

Swallows_OnlyNotFound(kind) == kind = "RiotAPINotFoundError"

\* `except Exception` of lines 152 and 225: every client error is caught.
Swallows(kind) == kind \in ErrorKinds

AfterFailedFetch_Break(ids, step) == "returned"

\* Line 227, `continue`: the loop goes on with the next id, if any.
AfterFailedFetch(ids, step) == IF step < 1 + Len(ids) THEN "running" ELSE "returned"

IdleFacade ==
    [pc |-> "idle", op |-> "", ids |-> <<>>, script |-> <<>>, step |-> 0,
     got |-> <<>>, returned |-> "", error |-> NoError]

\* A facade method is called; the outcomes of its client calls are fixed here
\* so that the call can be judged against them.
CallFacade ==
    /\ fc = IdleFacade
    /\ \E op \in FacadeOps, ids \in IdLists :
        /\ op # "get_recent_matches" => ids = <<>>
        /\ \E script \in [1..(IF op = "get_recent_matches" THEN 1 + Len(ids)
                               ELSE Len(ProfileSteps)) -> StepOutcomes] :
            fc' = [IdleFacade EXCEPT !.pc = "running", !.op = op, !.ids = ids,
                                     !.script = script]
    /\ UNCHANGED <<refreshed_at, tr, ss, clock, upd, cl, foc, db_summoners, db_leagues, lg, unique_queues,
                   http_session, req>>
    /\ UNCHANGED matchVars

GetSummonerStep_KeepsGoing(call) ==
    LET n == call.step + 1
        outcome == call.script[n]
        last == n = Len(ProfileSteps)
    IN  IF outcome # "ok"
        THEN [call EXCEPT !.step = n, !.pc = IF last THEN "raised" ELSE "running",
                          !.error = Resignal(n, ClientError(outcome))]
        ELSE [call EXCEPT !.step = n, !.got = Append(@, ProfileSteps[n]),
                          !.pc = IF last THEN "returned" ELSE "running",
                          !.returned = IF last THEN "profile" ELSE ""]

\* get_summoner (lines 91-119): the next client call and, after the last one,
\* the construction of the SummonerProfile.
GetSummonerStep(call) ==
    LET n == call.step + 1
        outcome == call.script[n]
    IN  IF outcome # "ok"
        THEN [call EXCEPT !.step = n, !.pc = "raised",
                          !.error = Resignal(n, ClientError(outcome))]
        ELSE [call EXCEPT !.step = n, !.got = Append(@, ProfileSteps[n]),
                          !.pc = IF n = Len(ProfileSteps) THEN "returned" ELSE "running",
                          !.returned = IF n = Len(ProfileSteps) THEN "profile" ELSE ""]

\* get_summoner_by_puuid (lines 134-154).
GetSummonerByPuuidStep(call) ==
    LET n == call.step + 1
        outcome == call.script[n]
    IN  IF outcome # "ok"
        THEN IF Swallows(outcome)
             THEN [call EXCEPT !.step = n, !.pc = "returned", !.returned = "None"]
             ELSE [call EXCEPT !.step = n, !.pc = "raised",
                               !.error = ClientError(outcome)]
        ELSE [call EXCEPT !.step = n, !.got = Append(@, ProfileSteps[n]),
                          !.pc = IF n = Len(ProfileSteps) THEN "returned" ELSE "running",
                          !.returned = IF n = Len(ProfileSteps) THEN "profile" ELSE ""]

\* get_recent_matches (lines 217-229): the match-id list, then one match fetch
\* per id.
GetRecentMatchesStep(call) ==
    LET n == call.step + 1
        outcome == call.script[n]
        last == n = 1 + Len(call.ids)
    IN  IF n = 1
        THEN IF outcome # "ok"
             THEN [call EXCEPT !.step = n, !.pc = "raised",
                               !.error = ClientError(outcome)]
             ELSE [call EXCEPT !.step = n,
                               !.pc = IF last THEN "returned" ELSE "running",
                               !.returned = IF last THEN "matches" ELSE ""]
        ELSE IF outcome # "ok"
        THEN IF Swallows(outcome)
             THEN [call EXCEPT !.step = n, !.pc = AfterFailedFetch(call.ids, n),
                               !.returned = IF AfterFailedFetch(call.ids, n) = "returned"
                                            THEN "matches" ELSE ""]
             ELSE [call EXCEPT !.step = n, !.pc = "raised",
                               !.error = ClientError(outcome)]
        ELSE [call EXCEPT !.step = n, !.got = Append(@, call.ids[n - 1]),
                          !.pc = IF last THEN "returned" ELSE "running",
                          !.returned = IF last THEN "matches" ELSE ""]

FacadeStep ==
    /\ fc.pc = "running"
    /\ fc' = IF fc.op = "get_summoner" THEN GetSummonerStep(fc)
             ELSE IF fc.op = "get_summoner_by_puuid" THEN GetSummonerByPuuidStep(fc)
             ELSE GetRecentMatchesStep(fc)
    /\ UNCHANGED <<refreshed_at, tr, ss, clock, upd, cl, foc, db_summoners, db_leagues, lg, unique_queues,
                   http_session, req>>
    /\ UNCHANGED matchVars

\* The caller has the result or the exception.
FacadeDone ==
    /\ fc.pc \in {"returned", "raised"}
    /\ fc' = IdleFacade
    /\ UNCHANGED <<refreshed_at, tr, ss, clock, upd, cl, foc, db_summoners, db_leagues, lg, unique_queues,
                   http_session, req>>
    /\ UNCHANGED matchVars

InitFacade == fc = IdleFacade

NextFacade ==
    \/ CallFacade
    \/ FacadeStep
    \/ FacadeDone

\* ------------------------------------------------------------------------
\* Domain clients and routing: app/internal/riot_api/clients/*.py, config.py,
\* controllers/matches.py and the older RiotAPI class (riot_api.py). One
\* action is a call up to its upstream request, the request, or the return.
\* ------------------------------------------------------------------------

\* class RiotRegion
RiotRegions == {"americas", "europe", "asia", "sea"}

\* class RiotPlatform
RiotPlatforms ==
    {"br1", "eun1", "euw1", "jp1", "kr", "la1", "la2", "na1", "oc1", "ph2",
     "ru", "sg2", "th2", "tr1", "tw2", "vn2"}

REGION_TO_PLATFORM ==
    ("br" :> "br1") @@ ("br1" :> "br1") @@ ("eun" :> "eun1") @@ ("eun1" :> "eun1")
    @@ ("eune" :> "eun1") @@ ("euw" :> "euw1") @@ ("euw1" :> "euw1")
    @@ ("jp" :> "jp1") @@ ("jp1" :> "jp1") @@ ("kr" :> "kr") @@ ("la1" :> "la1")
    @@ ("la2" :> "la2") @@ ("lan" :> "la1") @@ ("las" :> "la2") @@ ("na" :> "na1")
    @@ ("na1" :> "na1") @@ ("oc" :> "oc1") @@ ("oc1" :> "oc1") @@ ("oce" :> "oc1")
    @@ ("ph" :> "ph2") @@ ("ph2" :> "ph2") @@ ("ru" :> "ru") @@ ("sg" :> "sg2")
    @@ ("sg2" :> "sg2") @@ ("th" :> "th2") @@ ("th2" :> "th2") @@ ("tr" :> "tr1")
    @@ ("tr1" :> "tr1") @@ ("tw" :> "tw2") @@ ("tw2" :> "tw2") @@ ("vn" :> "vn2")
    @@ ("vn2" :> "vn2")

PLATFORM_TO_REGION ==
    ("na1" :> "americas") @@ ("br1" :> "americas") @@ ("la1" :> "americas")
    @@ ("la2" :> "americas") @@ ("oc1" :> "sea") @@ ("ph2" :> "sea")
    @@ ("sg2" :> "sea") @@ ("th2" :> "sea") @@ ("tw2" :> "sea") @@ ("vn2" :> "sea")
    @@ ("jp1" :> "asia") @@ ("kr" :> "asia") @@ ("eun1" :> "europe")
    @@ ("euw1" :> "europe") @@ ("tr1" :> "europe") @@ ("ru" :> "europe")

\* The dictionary platform_to_region inside RiotAPI.get_match_by_id.
LegacyPlatformToRegion ==
    ("euw1" :> "europe") @@ ("eun1" :> "europe") @@ ("tr1" :> "europe")
    @@ ("ru" :> "europe") @@ ("na1" :> "americas") @@ ("br1" :> "americas")
    @@ ("la1" :> "americas") @@ ("la2" :> "americas") @@ ("kr" :> "asia")
    @@ ("jp1" :> "asia") @@ ("oc1" :> "asia") @@ ("ph2" :> "asia")
    @@ ("sg2" :> "asia") @@ ("th2" :> "asia") @@ ("tw2" :> "asia")
    @@ ("vn2" :> "asia")

\* Region and platform codes a caller may pass.
Codes ==
    {"euw", "EUW", "Euw", "euw1", "EUW1", "oce", "oc1", "kr", "KR", "xx", "XX"}

\* str.lower() on the codes above.
Lower(code) ==
    IF code \in {"EUW", "Euw"} THEN "euw"
    ELSE IF code = "EUW1" THEN "euw1"
    ELSE IF code = "KR" THEN "kr"
    ELSE IF code = "XX" THEN "xx"
    ELSE code

\* The outcome of a conversion: a routing value, or the error it raises.
Routed(value) == [error |-> "none", value |-> value]

Unrouted(error) == [error |-> error, value |-> ""]

\* LeagueClient._region_to_platform and SummonerClient._region_to_platform.
RegionToPlatform(region) ==
    IF Lower(region) \notin DOMAIN REGION_TO_PLATFORM
    THEN Unrouted("RiotAPIValidationError")
    ELSE Routed(REGION_TO_PLATFORM[Lower(region)])

\* MatchClient._region_code_to_platform
RegionCodeToPlatform(region) ==
    IF Lower(region) \notin DOMAIN REGION_TO_PLATFORM
    THEN Unrouted("RiotAPIValidationError")
    ELSE Routed(REGION_TO_PLATFORM[Lower(region)])

PlatformToRegion_DefaultEurope(platform) ==
    IF platform \notin DOMAIN PLATFORM_TO_REGION
    THEN Routed("europe")
    ELSE Routed(PLATFORM_TO_REGION[platform])

\* MatchClient._platform_to_region
PlatformToRegion(platform) ==
    IF platform \notin DOMAIN PLATFORM_TO_REGION
    THEN Unrouted("RiotAPIValidationError")
    ELSE Routed(PLATFORM_TO_REGION[platform])

\* get_match_ids_by_puuid_with_region and get_match_with_region: the two
\* conversions in a row (lines 97-98 and 138-139).
RegionCodeToRegion(region) ==
    IF RegionCodeToPlatform(region).error # "none" THEN RegionCodeToPlatform(region)
    ELSE PlatformToRegion(RegionCodeToPlatform(region).value)

\* controllers/matches.py get_recent_matches: REGION_TO_PLATFORM[region].
ControllerPlatform(region) ==
    IF region \notin DOMAIN REGION_TO_PLATFORM THEN Unrouted("KeyError")
    ELSE Routed(REGION_TO_PLATFORM[region])

\* RiotAPI.get_match_by_id for a match id "<prefix>_<number>":
\* platform_to_region.get(prefix.lower(), "europe").
LegacyRegionOfMatch(prefix) ==
    IF Lower(prefix) \in DOMAIN LegacyPlatformToRegion
    THEN Routed(LegacyPlatformToRegion[Lower(prefix)])
    ELSE Routed("europe")

\* len(puuid) must be 78.
PuuidLength == 78

\* A universal id is given by its length; 0 is the empty string or None.
PuuidLengths == {0, PuuidLength - 1, PuuidLength, PuuidLength + 1}

MaxGameNameLength == 16

MaxTagLineLength == 5

\* Display names and tags are strings, written as sequences of characters.
GameNames ==
    {<<>>, <<" ", " ">>, <<"F", "a", "k", "e", "r">>,
     [i \in 1..(MaxGameNameLength + 1) |-> "x"]}

TagLines ==
    {<<>>, <<" ">>, <<"K", "R", "1">>, [i \in 1..(MaxTagLineLength + 1) |-> "x"]}

\* str.strip() for the blank character.
RECURSIVE Strip(_)
Strip(text) ==
    IF text = <<>> THEN text
    ELSE IF Head(text) = " " THEN Strip(Tail(text))
    ELSE IF text[Len(text)] = " " THEN Strip(SubSeq(text, 1, Len(text) - 1))
    ELSE text

ValidatePuuid_Skipped(puuid) == "none"

\* _validate_puuid of the four clients: "none" when nothing is raised.
ValidatePuuid(puuid) ==
    IF puuid = 0 \/ puuid # PuuidLength THEN "RiotAPIValidationError" ELSE "none"

\* AccountClient._validate_riot_id
ValidateRiotId(game_name, tag_line) ==
    IF game_name = <<>> \/ Strip(game_name) = <<>> THEN "RiotAPIValidationError"
    ELSE IF tag_line = <<>> \/ Strip(tag_line) = <<>> THEN "RiotAPIValidationError"
    ELSE IF Len(game_name) > MaxGameNameLength THEN "RiotAPIValidationError"
    ELSE IF Len(tag_line) > MaxTagLineLength THEN "RiotAPIValidationError"
    ELSE "none"

\* The client methods that take a universal id and nothing to convert.
PuuidOps ==
    {"AccountClient.get_by_puuid", "AccountClient.get_active_region",
     "SummonerClient.get_by_puuid", "LeagueClient.get_entries_by_puuid",
     "MatchClient.get_match_ids_by_puuid"}

\* The client methods that take a universal id and a region code.
PuuidRegionOps ==
    {"SummonerClient.get_by_puuid_with_region",
     "LeagueClient.get_entries_by_puuid_with_region",
     "MatchClient.get_match_ids_by_puuid_with_region"}

\* The calls that take a code and no universal id.
CodeOps ==
    {"MatchClient.get_match_with_region", "MatchClient._region_code_to_platform",
     "MatchClient._platform_to_region", "MatchesController.get_recent_matches",
     "RiotAPI.get_match_by_id"}

\* The calls that end without an upstream request of their own.
LocalOps ==
    {"MatchClient._region_code_to_platform", "MatchClient._platform_to_region",
     "MatchesController.get_recent_matches"}

\* The conversion a call performs on its code.
Conversion(op, code) ==
    IF op \in {"SummonerClient.get_by_puuid_with_region",
               "LeagueClient.get_entries_by_puuid_with_region"}
    THEN RegionToPlatform(code)
    ELSE IF op \in {"MatchClient.get_match_ids_by_puuid_with_region",
                    "MatchClient.get_match_with_region"}
    THEN RegionCodeToRegion(code)
    ELSE IF op = "MatchClient._region_code_to_platform" THEN RegionCodeToPlatform(code)
    ELSE IF op = "MatchClient._platform_to_region" THEN PlatformToRegion(code)
    ELSE IF op = "MatchesController.get_recent_matches" THEN ControllerPlatform(code)
    ELSE LegacyRegionOfMatch(code)

IdleClient ==
    [pc |-> "idle", op |-> "", puuid |-> 0, game_name |-> <<>>, tag_line |-> <<>>,
     code |-> "", routing |-> "", requests |-> 0, error |-> "none"]

\* A call with its arguments, up to its upstream request: the conversion of
\* the code first, then the validation, as the methods order them.
Called(op, puuid, game_name, tag_line, code) ==
    LET call == [IdleClient EXCEPT !.op = op, !.puuid = puuid,
                                   !.game_name = game_name, !.tag_line = tag_line,
                                   !.code = code]
        conv == IF op \in PuuidRegionOps \cup CodeOps THEN Conversion(op, code)
                ELSE Routed("")
        check == IF op = "AccountClient.get_by_riot_id"
                 THEN ValidateRiotId(game_name, tag_line)
                 ELSE IF op \in PuuidOps \cup PuuidRegionOps THEN ValidatePuuid(puuid)
                 ELSE "none"
    IN  IF conv.error # "none"
        THEN [call EXCEPT !.pc = "done", !.error = conv.error]
        ELSE IF check # "none"
        THEN [call EXCEPT !.pc = "done", !.error = check, !.routing = conv.value]
        ELSE [call EXCEPT !.pc = IF op \in LocalOps THEN "done" ELSE "request",
                          !.routing = conv.value]

CallClient ==
    /\ cl.pc = "idle"
    /\ \/ \E game_name \in GameNames, tag_line \in TagLines :
            cl' = Called("AccountClient.get_by_riot_id", 0, game_name, tag_line, "")
       \/ \E op \in PuuidOps, puuid \in PuuidLengths :
            cl' = Called(op, puuid, <<>>, <<>>, "")
       \/ \E op \in PuuidRegionOps, puuid \in PuuidLengths, code \in Codes :
            cl' = Called(op, puuid, <<>>, <<>>, code)
       \/ \E op \in CodeOps, code \in Codes :
            cl' = Called(op, 0, <<>>, <<>>, code)
    /\ UNCHANGED <<refreshed_at, tr, ss, clock, upd, fc, foc, db_summoners>>
    /\ UNCHANGED OtherTables
    /\ UNCHANGED matchVars

\* The upstream request of the call (self._request..., or requests.get in
\* RiotAPI.get_match_by_id) and its outcome.
ClientRequest ==
    /\ cl.pc = "request"
    /\ \E outcome \in {"none", "RiotAPINotFoundError", "RiotAPIError"} :
        cl' = [cl EXCEPT !.pc = "done", !.requests = @ + 1, !.error = outcome]
    /\ UNCHANGED <<refreshed_at, tr, ss, clock, upd, fc, foc, db_summoners>>
    /\ UNCHANGED OtherTables
    /\ UNCHANGED matchVars

ClientReturn ==
    /\ cl.pc = "done"
    /\ cl' = IdleClient
    /\ UNCHANGED <<refreshed_at, tr, ss, clock, upd, fc, foc, db_summoners>>
    /\ UNCHANGED OtherTables
    /\ UNCHANGED matchVars

InitClients == cl = IdleClient

NextClients ==
    \/ CallClient
    \/ ClientRequest
    \/ ClientReturn

\* ------------------------------------------------------------------------
\* find_or_create and create as called for a search by display name:
\* app/internal/controllers/summoners.py lines 56-111
\* ------------------------------------------------------------------------

\* Display names (name and tag) a search may carry.
RiotIds == {"N1", "N2", "N3"}

\* What riot_api.get_summoner(game_name, tag_line) answers in create(): the
\* account that carries the display name now, not found, or another error.
AccountsAtRiot == Puuids \cup {"not_found", "error"}

IdleLookup ==
    [pc |-> "idle", riot_id |-> "", at_riot |-> "", cached |-> {},
     result |-> {}, error |-> "none"]

\* get_summoner_by_name (lines 18-28): the stored profiles with that name.
ProfilesByName(riot_id) == {r \in db_summoners : r.riot_id = riot_id}

ProfilesByPuuid(puuid) == {r \in db_summoners : r.puuid = puuid}

\* .first() of a query.
First(rows) ==
    IF rows = {} THEN {}
    ELSE {CHOOSE r \in rows : \A o \in rows : r.id <= o.id}

\* find_or_create, lines 106-111, up to the await of create() line 63.
FindOrCreate ==
    /\ foc.pc = "idle"
    /\ \E riot_id \in RiotIds :
        LET summoner == First(ProfilesByName(riot_id))
        IN  foc' = [IdleLookup EXCEPT
                      !.riot_id = riot_id,
                      !.pc = IF summoner = {} THEN "create" ELSE "returned",
                      !.result = summoner]
    /\ UNCHANGED <<refreshed_at, tr, ss, clock, upd, fc, cl, db_summoners, db_leagues, lg, unique_queues,
                   http_session, req>>
    /\ UNCHANGED matchVars

\* Line 97: what create() returns when the account is already stored.
CreateResult(summoner_in_db) == {}

\* create(), lines 62-97, once riot_api.get_summoner has answered, and the
\* return of find_or_create (line 111). The new profile carries the display
\* name the upstream resolved; it is drawn unranked.
Create ==
    /\ foc.pc = "create"
    /\ \E at_riot \in AccountsAtRiot :
        LET summoner_in_db == First(ProfilesByPuuid(at_riot))
            sid == NextId(db_summoners)
            new_summoner == [id |-> sid, puuid |-> at_riot, riot_id |-> foc.riot_id,
                             updated_at |-> clock]
        IN  IF at_riot = "error"
            THEN /\ foc' = [foc EXCEPT !.pc = "raised", !.error = "RiotAPIError",
                                       !.at_riot = at_riot]
                 /\ UNCHANGED <<db_summoners, db_leagues>>
            ELSE IF at_riot = "not_found"
            THEN /\ foc' = [foc EXCEPT !.pc = "returned", !.at_riot = at_riot]
                 /\ UNCHANGED <<db_summoners, db_leagues>>
            ELSE IF summoner_in_db # {}
            THEN /\ foc' = [foc EXCEPT !.pc = "returned", !.at_riot = at_riot,
                                       !.cached = summoner_in_db,
                                       !.result = CreateResult(summoner_in_db)]
                 /\ UNCHANGED <<db_summoners, db_leagues>>
            ELSE /\ db_summoners' = db_summoners \cup {new_summoner}
                 /\ db_leagues' = FlushedRows(db_leagues, sid, LeagueObjects(<<>>), {})
                 /\ foc' = [foc EXCEPT !.pc = "returned", !.at_riot = at_riot,
                                       !.result = {new_summoner}]
    /\ UNCHANGED <<refreshed_at, tr, ss, clock, upd, fc, cl, lg, unique_queues, http_session, req>>
    /\ UNCHANGED matchVars

\* The search is answered; the next one may start.
EndLookup ==
    /\ foc.pc \in {"returned", "raised"}
    /\ foc' = IdleLookup
    /\ UNCHANGED <<refreshed_at, tr, ss, clock, upd, fc, cl, db_summoners, db_leagues, lg, unique_queues,
                   http_session, req>>
    /\ UNCHANGED matchVars

InitLookup == foc = IdleLookup

NextLookup ==
    \/ FindOrCreate
    \/ Create
    \/ EndLookup

\* ------------------------------------------------------------------------
\* Error translation at the HTTP boundary:
\* app/internal/riot_api/http_errors.py, over the exception classes of
\* app/internal/riot_api/exceptions.py.
\* ------------------------------------------------------------------------

\* Message texts an exception may carry: the texts base.py builds
\* (lines 263-286), and texts that quote the upstream (a key, a raw body).
Messages ==
    {"Invalid or expired API key", "Access forbidden - check API key permissions",
     "Rate limit exceeded", "Server error: 503", "Unexpected status: 418",
     "X-Riot-Token RGAPI-secret rejected", "<html>upstream body</html>",
     "Invalid PUUID format"}

\* retry_after of RiotAPIRateLimitError (exceptions.py line 66): absent or seconds.
RetryAfterSeconds == {{}, {0}, {30}}

\* The exceptions riot_exception_to_http may be handed.
RiotExceptions ==
    {[class |-> c, message |-> m, retry_after |-> r] :
        c \in ErrorKinds, m \in Messages, r \in RetryAfterSeconds}
    \ {e \in [class : ErrorKinds, message : Messages, retry_after : RetryAfterSeconds] :
        e.class # "RiotAPIRateLimitError" /\ e.retry_after # {}}

HTTPException(status_code, detail, headers) ==
    [status_code |-> status_code, detail |-> detail, headers |-> headers]

NoHeaders == {}

\* Lines 61-63 and 67: the Retry-After header is set for a truthy retry_after.
RetryAfterHeader(retry_after) ==
    {<<"Retry-After", s>> : s \in {x \in retry_after : x # 0}}

RiotExceptionToHttp_Echo(exc) ==
    IF exc.class = "RiotAPINotFoundError"
    THEN HTTPException(404, "Summoner not found", NoHeaders)
    ELSE HTTPException(IF exc.class = "RiotAPIValidationError" THEN 400 ELSE 503,
                       exc.message, NoHeaders)

\* riot_exception_to_http, lines 40-86: the first matching case.
RiotExceptionToHttp(exc) ==
    IF exc.class = "RiotAPINotFoundError"
    THEN HTTPException(404, "Summoner not found", NoHeaders)
    ELSE IF exc.class = "RiotAPIValidationError"
    THEN HTTPException(400, exc.message, NoHeaders)
    ELSE IF exc.class = "RiotAPIAuthenticationError"
    THEN HTTPException(503, "Service temporarily unavailable", NoHeaders)
    ELSE IF exc.class = "RiotAPIRateLimitError"
    THEN HTTPException(503, "Service temporarily unavailable",
                       RetryAfterHeader(exc.retry_after))
    ELSE IF exc.class = "RiotAPITimeoutError"
    THEN HTTPException(504, "External service timeout", NoHeaders)
    ELSE IF exc.class = "RiotAPIServerError"
    THEN HTTPException(502, "External service error", NoHeaders)
    ELSE HTTPException(500, "Internal server error", NoHeaders)

IdleTranslation == [pc |-> "idle", exc |-> {}, http |-> {}]

\* A handler catches a RiotAPIError (the docstring's `except RiotAPIError as e`).
CatchRiotError ==
    /\ tr.pc = "idle"
    /\ \E exc \in RiotExceptions :
        tr' = [tr EXCEPT !.pc = "caught", !.exc = {exc}]
    /\ UNCHANGED <<refreshed_at, clock, upd, fc, cl, foc, ss, db_summoners>>
    /\ UNCHANGED OtherTables
    /\ UNCHANGED matchVars

\* `raise riot_exception_to_http(e)`.
TranslateRiotError ==
    /\ tr.pc = "caught"
    /\ tr' = [tr EXCEPT !.pc = "translated",
                        !.http = {RiotExceptionToHttp(e) : e \in tr.exc}]
    /\ UNCHANGED <<refreshed_at, clock, upd, fc, cl, foc, ss, db_summoners>>
    /\ UNCHANGED OtherTables
    /\ UNCHANGED matchVars

\* The response is sent.
RespondWithError ==
    /\ tr.pc = "translated"
    /\ tr' = IdleTranslation
    /\ UNCHANGED <<refreshed_at, clock, upd, fc, cl, foc, ss, db_summoners>>
    /\ UNCHANGED OtherTables
    /\ UNCHANGED matchVars

InitErrors == tr = IdleTranslation

NextErrors ==
    \/ CatchRiotError
    \/ TranslateRiotError
    \/ RespondWithError

\* ------------------------------------------------------------------------
\* The shared HTTP session: app/internal/session.py, and the domain clients
\* that capture it (RiotAPIBase.__init__, base.py lines 60-63). Tasks are
\* coroutines of one event loop: a step runs from one suspension point to
\* the next.
\* ------------------------------------------------------------------------

Tasks == {1, 2, 3}

\* A coroutine between calls. ClientSession objects are numbered in the order
\* of their construction; 0 stands for None.
IdleTask == [pc |-> "idle", op |-> "", result |-> 0, error |-> "none"]

\* ClientSession.closed
Closed(s, id) == id \in s.closed

\* get_session, lines 21-25.
GetSession(s) ==
    IF s.session = 0 \/ Closed(s, s.session)
    THEN [result |-> 0, error |-> "RuntimeError"]
    ELSE [result |-> s.session, error |-> "none"]

InitSession_Always(s) ==
    [s EXCEPT !.session = s.created + 1, !.created = @ + 1]

\* init_session, lines 15-18, with the lock held: the module state after it.
InitSessionBody(s) ==
    IF s.session = 0 \/ Closed(s, s.session)
    THEN [s EXCEPT !.session = s.created + 1, !.created = @ + 1]
    ELSE s

\* A coroutine calls init_session or close_session and reaches
\* `async with _lock` (lines 14 and 30).
CallLocked(t) ==
    /\ ss.task[t].pc = "idle"
    /\ \E op \in {"init_session", "close_session"} :
        ss' = [ss EXCEPT !.task[t] = [IdleTask EXCEPT !.pc = "lock", !.op = op]]
    /\ UNCHANGED <<refreshed_at, clock, upd, fc, cl, foc, tr, db_summoners>>
    /\ UNCHANGED OtherTables
    /\ UNCHANGED matchVars

\* init_session, lines 14-18: the lock is taken, the body runs without
\* suspension, the lock is released.
InitSessionCall(t) ==
    /\ ss.task[t].pc = "lock"
    /\ ss.task[t].op = "init_session"
    /\ ss.lock = 0
    /\ InitSessionBody(ss).created <= MaxSessions
    /\ LET after == InitSessionBody(ss)
       IN  ss' = [after EXCEPT !.task[t].pc = "returned",
                               !.task[t].result = after.session]
    /\ UNCHANGED <<refreshed_at, clock, upd, fc, cl, foc, tr, db_summoners>>
    /\ UNCHANGED OtherTables
    /\ UNCHANGED matchVars

\* close_session, lines 30-32: the lock is taken; an open session starts to
\* close (aiohttp marks it closed before the first suspension) and the
\* coroutine waits in `await _session.close()`. Without an open session
\* line 33 follows at once.
CloseSessionBegin(t) ==
    /\ ss.task[t].pc = "lock"
    /\ ss.task[t].op = "close_session"
    /\ ss.lock = 0
    /\ IF ss.session # 0 /\ ~Closed(ss, ss.session)
       THEN ss' = [ss EXCEPT !.closed = @ \cup {ss.session}, !.lock = t,
                             !.task[t].pc = "closing"]
       ELSE ss' = [ss EXCEPT !.session = 0, !.task[t].pc = "returned"]
    /\ UNCHANGED <<refreshed_at, clock, upd, fc, cl, foc, tr, db_summoners>>
    /\ UNCHANGED OtherTables
    /\ UNCHANGED matchVars

\* close_session, line 33, and the release of the lock.
CloseSessionEnd(t) ==
    /\ ss.task[t].pc = "closing"
    /\ ss' = [ss EXCEPT !.session = 0, !.lock = 0, !.task[t].pc = "returned"]
    /\ UNCHANGED <<refreshed_at, clock, upd, fc, cl, foc, tr, db_summoners>>
    /\ UNCHANGED OtherTables
    /\ UNCHANGED matchVars

\* get_session() called by a coroutine.
GetSessionCall(t) ==
    /\ ss.task[t].pc = "idle"
    /\ LET got == GetSession(ss)
       IN  ss' = [ss EXCEPT !.task[t] =
                    [pc |-> IF got.error = "none" THEN "returned" ELSE "raised",
                     op |-> "get_session", result |-> got.result,
                     error |-> got.error]]
    /\ UNCHANGED <<refreshed_at, clock, upd, fc, cl, foc, tr, db_summoners>>
    /\ UNCHANGED OtherTables
    /\ UNCHANGED matchVars

\* RiotAPIBase.__init__, line 63: a domain client is constructed and keeps
\* the session get_session() returns.
ConstructClient(t) ==
    /\ ss.task[t].pc = "idle"
    /\ LET got == GetSession(ss)
       IN  ss' = [ss EXCEPT !.client = IF got.error = "none" THEN got.result ELSE @,
                            !.task[t] =
                    [pc |-> IF got.error = "none" THEN "returned" ELSE "raised",
                     op |-> "RiotAPIBase.__init__", result |-> got.result,
                     error |-> got.error]]
    /\ UNCHANGED <<refreshed_at, clock, upd, fc, cl, foc, tr, db_summoners>>
    /\ UNCHANGED OtherTables
    /\ UNCHANGED matchVars

\* RiotAPIBase._request, line 119: `await self._session.get(url)` on the
\* session the client kept; aiohttp raises RuntimeError("Session is closed")
\* on a closed session. result is the session the request went to.
ClientSend(t) ==
    /\ ss.task[t].pc = "idle"
    /\ ss.client # 0
    /\ ss' = [ss EXCEPT !.task[t] =
                [pc |-> IF Closed(ss, ss.client) THEN "raised" ELSE "returned",
                 op |-> "RiotAPIBase._request", result |-> ss.client,
                 error |-> IF Closed(ss, ss.client) THEN "RuntimeError" ELSE "none"]]
    /\ UNCHANGED <<refreshed_at, clock, upd, fc, cl, foc, tr, db_summoners>>
    /\ UNCHANGED OtherTables
    /\ UNCHANGED matchVars

\* The coroutine is over.
EndTask(t) ==
    /\ ss.task[t].pc \in {"returned", "raised"}
    /\ ss' = [ss EXCEPT !.task[t] = IdleTask]
    /\ UNCHANGED <<refreshed_at, clock, upd, fc, cl, foc, tr, db_summoners>>
    /\ UNCHANGED OtherTables
    /\ UNCHANGED matchVars

\* Lines 8-9: _lock free, _session None; no client constructed yet.
InitSessionModule ==
    ss = [session |-> 0, created |-> 0, closed |-> {}, lock |-> 0, client |-> 0,
          task |-> [t \in Tasks |-> IdleTask]]

NextSession ==
    \E t \in Tasks :
        \/ CallLocked(t)
        \/ InitSessionCall(t)
        \/ CloseSessionBegin(t)
        \/ CloseSessionEnd(t)
        \/ GetSessionCall(t)
        \/ ConstructClient(t)
        \/ ClientSend(t)
        \/ EndTask(t)

InitTransport ==
    /\ http_session = [open |-> FALSE, retry_middleware |-> FALSE]
    /\ req = IdleReq

NextTransport ==
    \/ InitSession
    \/ CloseSession
    \/ StartRequest
    \/ Attempt
    \/ ReturnToCaller

vars == <<http_session, req, db_summoners, db_leagues, lg, unique_queues,
          db_matches, db_teams, db_participants, db_runes, run, clock, upd, fc,
          cl, foc, tr, ss, refreshed_at>>

Init ==
    /\ InitTransport
    /\ InitDb
    /\ InitIngest
    /\ InitUpdate
    /\ InitFacade
    /\ InitClients
    /\ InitLookup
    /\ InitErrors
    /\ InitSessionModule

SpecTransport == Init /\ [][NextTransport]_vars

SpecLeagues == Init /\ [][NextLeagues]_vars

SpecIngest == Init /\ [][NextIngest]_vars

SpecUpdate == Init /\ [][NextUpdate]_vars

SpecFacade == Init /\ [][NextFacade]_vars

SpecClients == Init /\ [][NextClients]_vars

SpecLookup == Init /\ [][NextLookup]_vars

SpecErrors == Init /\ [][NextErrors]_vars

SpecSession == Init /\ [][NextSession]_vars

\* ------------------------------------------------------------------------
\* Claims on the transport client (checked under SpecTransport)
\* ------------------------------------------------------------------------

Is2xx(status) == 200 <= status /\ status < 300
Is5xx(status) == 500 <= status /\ status < 600

\* Positions of the script the bounded retry may consume.
RetryWindow == 1..RetryAttempts

\* The request is over and its first answers were all responses (no timeout).
DoneOnStatuses ==
    /\ req.pc = "done"
    /\ \A i \in RetryWindow : req.script[i].kind = "response"

First2xx == CHOOSE i \in RetryWindow :
    /\ Is2xx(req.script[i].status)
    /\ \A j \in 1..(i - 1) : ~Is2xx(req.script[j].status)

\* C6: bounded retry. When the upstream answers 5xx until a first well-formed
\* 2xx within the first three answers, the request returns that answer's body
\* after exactly that many attempts; when the first three answers are all 5xx,
\* exactly three attempts are made and RiotAPIServerError is raised.
C6_BoundedRetry ==
    (/\ DoneOnStatuses
     /\ \A i \in RetryWindow :
            \/ Is5xx(req.script[i].status)
            \/ Is2xx(req.script[i].status) /\ ExpectedShape(req.script[i].body))
    => IF \E i \in RetryWindow : Is2xx(req.script[i].status)
       THEN /\ \A j \in 1..(First2xx - 1) : Is5xx(req.script[j].status)
               => /\ req.attempts = First2xx
                  /\ req.result.kind = "value"
                  /\ req.result.body = req.script[First2xx].body
       ELSE /\ req.attempts = RetryAttempts
            /\ req.result.kind = "RiotAPIServerError"

ClaimedError(status) ==
    IF Is2xx(status) THEN "none"
    ELSE IF status \in {401, 403} THEN "RiotAPIAuthenticationError"
    ELSE IF status = 404 THEN "RiotAPINotFoundError"
    ELSE IF status = 429 THEN "RiotAPIRateLimitError"
    ELSE IF Is5xx(status) THEN "RiotAPIServerError"
    ELSE "RiotAPIError"

\* C10: _check_response_status is the total mapping 401/403 -> authentication,
\* 404 -> not found, 429 -> rate limit, 5xx -> server error with the status,
\* any other non-2xx -> generic error with the status, 2xx -> nothing raised.
C10_StatusMappingTotal ==
    (/\ req.pc = "done"
     /\ req.script[req.attempts].kind = "response")
    => LET status == req.script[req.attempts].status
       IN  /\ req.checked.kind = ClaimedError(status)
           /\ ClaimedError(status) \in {"RiotAPIServerError", "RiotAPIError"}
                => req.checked.status_code = status

\* ------------------------------------------------------------------------
\* Claims on the reconciliation (checked under SpecLeagues)
\* ------------------------------------------------------------------------

\* update_leagues has just returned or raised; lg.loaded is the player's
\* entries before the call and lg.coll is Summoner.leagues after it.
AfterUpdateLeagues == lg.pc \in {"returned", "raised"}

HasLeague(entries, league_id) == \E i \in DOMAIN entries : entries[i].league_id = league_id

StatsOf(entry) == <<entry.wins, entry.losses, entry.league_points>>

\* The (queue type, wins) pairs of a list of entries, in order.
QueueWins(entries) == [i \in DOMAIN entries |-> <<entries[i].queue_type, entries[i].wins>>]

\* C2: update_leagues completes without error, removes every existing entry
\* whose league id no fetched entry carries, and keeps an entry for every
\* league id that was matched; existing [SOLO wins 10, FLEX wins 10] with
\* fetched [SOLO wins 12] gives exactly [SOLO wins 12].
C2_RetiresExactlyUnmatched ==
    AfterUpdateLeagues =>
        /\ lg.error = "none"
        /\ \A i \in DOMAIN lg.loaded :
            IF HasLeague(lg.fetched, lg.loaded[i].league_id)
            THEN HasLeague(lg.coll, lg.loaded[i].league_id)
            ELSE /\ \A j \in DOMAIN lg.coll : lg.coll[j].id # lg.loaded[i].id
                 /\ lg.loaded[i].id \in lg.deleted
        /\ (/\ QueueWins(lg.loaded) = <<<<"RANKED_SOLO_5x5", 10>>, <<"RANKED_FLEX_SR", 10>>>>
            /\ QueueWins(lg.fetched) = <<<<"RANKED_SOLO_5x5", 12>>>>
            /\ lg.loaded[1].league_id = lg.fetched[1].league_id)
           => QueueWins(lg.coll) = <<<<"RANKED_SOLO_5x5", 12>>>>

\* C3: after update_leagues, every fetched entry whose league id matches no
\* existing entry is among the player's entries, also when no existing entry
\* was retired and when the player had no entries.
C3_AddsNewEntries ==
    lg.pc = "returned" =>
        \A i \in DOMAIN lg.fetched :
            ~HasLeague(lg.loaded, lg.fetched[i].league_id)
                => HasLeague(lg.coll, lg.fetched[i].league_id)

\* C4: after update_leagues, every existing entry whose league id a fetched
\* entry carries is still the player's entry for that league, as the same
\* record, with the wins, losses and league points of the fetched entry.
C4_OverwritesInPlace ==
    lg.pc = "returned" =>
        \A i \in DOMAIN lg.loaded :
            HasLeague(lg.fetched, lg.loaded[i].league_id)
                => \E j \in DOMAIN lg.coll :
                    /\ lg.coll[j].id = lg.loaded[i].id
                    /\ lg.coll[j].league_id = lg.loaded[i].league_id
                    /\ StatsOf(lg.coll[j]) =
                        StatsOf(MatchingFetched(lg.loaded[i], lg.fetched)[1])

\* The ranked entries stored for the player.
StoredLeagues == LoadLeagues(db_leagues, SummonerRowId(Player))

\* C5: when every fetched list had at most one entry per queue type, the
\* stored entries owned by the player have at most one entry per queue type,
\* after any sequence of reconciliations.
C5_OneEntryPerQueue ==
    unique_queues =>
        /\ OnePerQueue(StoredLeagues)
        /\ lg.pc = "committed" => OnePerQueue(lg.coll)

\* C5 witness: a reconciliation that retired an entry and stored two new ones
\* has been committed.
C5_Witness ==
    /\ unique_queues
    /\ lg.pc = "committed"
    /\ lg.loaded # <<>>
    /\ Len(StoredLeagues) = 2
    /\ \A i \in DOMAIN lg.loaded :
        \A j \in DOMAIN StoredLeagues : StoredLeagues[j].id # lg.loaded[i].id

\* ------------------------------------------------------------------------
\* Claims on match ingestion (checked under SpecIngest)
\* ------------------------------------------------------------------------

\* The stored match rows carrying a match id.
RecordsOf(m) == {r \in db_matches : r.match_id = m}

TeamsOf(r) == {t \in db_teams : t.match = r.id}

ParticipantsOf(r) == {p \in db_participants : p.match = r.id}

\* At most one match row per match id, and the team and participant rows of a
\* match row all come from the one run that inserted it, one team row per team.
OneRecordAndOneSet ==
    /\ \A m \in MatchIds : Cardinality(RecordsOf(m)) <= 1
    /\ \A r \in db_matches :
        /\ \A t \in TeamsOf(r) : t.by = r.by
        /\ \A t1, t2 \in TeamsOf(r) : t1.team_id = t2.team_id => t1 = t2
        /\ \A p \in ParticipantsOf(r) : p.by = r.by
        /\ Cardinality(ParticipantsOf(r)) <= MaxParticipants
    /\ \A t \in db_teams : \E r \in db_matches : t.match = r.id
    /\ \A p \in db_participants : \E r \in db_matches : p.match = r.id

\* A worker whose next list entry is a match id that already has a row only
\* moves on to the next entry, recording the match as skipped, and writes nothing.
SkipsExisting ==
    \A w \in Workers :
        (/\ run[w].pc = "loop"
         /\ run[w].queue # <<>>
         /\ RecordsOf(Head(run[w].queue)) # {}
         /\ run'[w] # run[w])
        => /\ run'[w] = [run[w] EXCEPT
                           !.queue = Tail(@),
                           !.outcomes = Append(@, <<Head(run[w].queue), "skipped">>)]
           /\ UNCHANGED <<db_summoners, db_leagues, db_matches, db_teams,
                          db_participants, db_runes>>

\* C1: ingestion is idempotent. However often and by whichever worker a match
\* id is ingested, the database holds at most one match row for it with one
\* set of team and participant rows; and when a row with that match id exists
\* (complete or not) at the time a run reaches the match, the run records it
\* as skipped and performs no write for it.
C1_IngestionIdempotent == []OneRecordAndOneSet /\ [][SkipsExisting]_vars

\* C1 witness: a run skipped a match id whose row, teams and participant are stored.
C1_Witness ==
    \E w \in Workers : \E i \in DOMAIN run[w].outcomes :
        /\ run[w].outcomes[i][2] = "skipped"
        /\ \E r \in RecordsOf(run[w].outcomes[i][1]) :
            /\ TeamsOf(r) # {}
            /\ ParticipantsOf(r) # {}

\* The match a failed run was ingesting.
FailedMatch(w) == run[w].outcomes[Len(run[w].outcomes)][1]

\* C8: per-match atomicity. When a step of the ingestion of a match fails in a
\* run, no match row, team row or participant row written by that run for
\* that match is stored.
C8_PerMatchAtomicity ==
    \A w \in Workers :
        run[w].pc = "failed"
        => /\ \A r \in RecordsOf(FailedMatch(w)) : r.by # w
           /\ \A t \in db_teams : t.by = w =>
                \A r \in RecordsOf(FailedMatch(w)) : t.match # r.id
           /\ \A p \in db_participants : p.by = w =>
                \A r \in RecordsOf(FailedMatch(w)) : p.match # r.id

\* C9: concurrent ingestion of one match id. At most one match row per match
\* id is ever stored, and the run that loses the race for the insert does not
\* end with an error: it treats the match as skipped.
C9_ConcurrentSameMatch ==
    /\ \A r1, r2 \in db_matches : r1.match_id = r2.match_id => r1.id = r2.id
    /\ \A w \in Workers : ~(run[w].pc = "failed" /\ run[w].failed_at = "match")

\* ------------------------------------------------------------------------
\* Claims on the profile refresh (checked under SpecUpdate)
\* ------------------------------------------------------------------------

\* update() has evaluated the freshness test on a cached profile.
FreshnessTested == upd.pc # "idle" /\ upd.cached # {}

\* C11: is_summoner_ttl_expired is true exactly when the age of the profile
\* (now minus last-synced) is at least 30 seconds: 29 s is fresh, 31 s is
\* stale and exactly 30 s is stale.
C11_FreshnessPredicate ==
    FreshnessTested =>
        /\ upd.expired <=> (upd.age >= 30)
        /\ upd.age = 29 => ~upd.expired
        /\ upd.age = 30 => upd.expired
        /\ upd.age = 31 => upd.expired

\* C11 witness: the test has run on a profile aged exactly 30 seconds.
C11_Witness == FreshnessTested /\ upd.age = 30 /\ upd.expired

UpdateOver == upd.pc \in {"returned", "raised"} /\ upd.cached # {}

\* On a fresh profile update makes no upstream call, writes nothing and
\* returns the cached profile as it is stored.
FreshIsUntouched ==
    (UpdateOver /\ upd.age < 30) =>
        /\ upd.pc = "returned"
        /\ upd.upstream_calls = 0
        /\ ~upd.wrote
        /\ upd.result = upd.cached
        /\ upd.cached \subseteq db_summoners

\* The step that answers a fresh profile changes no stored row.
FreshStepWritesNothing ==
    (upd.pc = "idle" /\ upd'.pc = "returned")
        => UNCHANGED <<db_summoners, db_leagues, db_matches, db_teams,
                       db_participants, db_runes>>

C15_RefreshDoesNotHardFail ==
    (UpdateOver /\ upd.age >= 30 /\ upd.at_riot = "None")
        => upd.pc = "returned" /\ upd.error = "none"

\* ------------------------------------------------------------------------
\* Claims on the facade (checked under SpecFacade)
\* ------------------------------------------------------------------------

FacadeOver(op) == fc.op = op /\ fc.pc \in {"returned", "raised"}

AllOk(script) == \A i \in DOMAIN script : script[i] = "ok"

\* Index of the first client call of the script that fails.
FirstFailure(script) ==
    CHOOSE i \in DOMAIN script :
        script[i] # "ok" /\ \A j \in 1..(i - 1) : script[j] = "ok"

\* C13: get_summoner returns the complete aggregate or a failure, never a
\* partial object. A not-found error of the identity-resolution step is
\* re-signalled as a not-found error; a failure of the region, profile or
\* ranked-entries step reaches the caller as the same typed error the client
\* raised.
C13_GetSummonerAllOrFailure ==
    FacadeOver("get_summoner") =>
        IF AllOk(fc.script)
        THEN /\ fc.pc = "returned"
             /\ fc.returned = "profile"
             /\ fc.got = <<"account", "region", "summoner", "leagues">>
             /\ fc.error.kind = "none"
        ELSE LET k == FirstFailure(fc.script)
             IN  /\ fc.pc = "raised"
                 /\ fc.returned = ""
                 /\ fc.step = k
                 /\ fc.error.kind = fc.script[k]
                 /\ k = 1 /\ fc.script[k] = "RiotAPINotFoundError"
                        => fc.error.message = "Summoner not found"
                 /\ k > 1 => fc.error = [kind |-> fc.script[k], message |-> "client"]

\* C13 witness: the ranked-entries step failed after three successful steps.
C13_Witness ==
    /\ FacadeOver("get_summoner")
    /\ fc.step = 4
    /\ fc.script[4] = "RiotAPIServerError"
    /\ fc.pc = "raised"

\* C14: get_summoner_by_puuid never propagates a failure: whatever step fails
\* and however (validation, authentication, not found, rate limit, server,
\* timeout, parse), it returns None; it returns a profile only when all four
\* steps succeeded.
C14_ByPuuidNeverRaises ==
    FacadeOver("get_summoner_by_puuid") =>
        /\ fc.pc = "returned"
        /\ fc.error.kind = "none"
        /\ fc.returned = (IF AllOk(fc.script) THEN "profile" ELSE "None")
        /\ fc.returned = "profile"
            => fc.got = <<"account", "region", "summoner", "leagues">>

\* C14 witness: a timeout at the third step ended in None.
C14_Witness ==
    /\ FacadeOver("get_summoner_by_puuid")
    /\ fc.step = 3
    /\ fc.script[3] = "RiotAPITimeoutError"
    /\ fc.returned = "None"

\* The ids of the list whose match fetch succeeded, in list order.
RECURSIVE FetchedOk(_, _, _)
FetchedOk(ids, script, i) ==
    IF i > Len(ids) THEN <<>>
    ELSE (IF script[i + 1] = "ok" THEN <<ids[i]>> ELSE <<>>)
            \o FetchedOk(ids, script, i + 1)

\* C16: once the match-id list was fetched, get_recent_matches returns exactly
\* the matches whose own fetch succeeded, in the order of the id list; a
\* failed fetch skips that id only, and every later id is still fetched.
C16_RecentMatchesTolerant ==
    (FacadeOver("get_recent_matches") /\ fc.script[1] = "ok") =>
        /\ fc.pc = "returned"
        /\ fc.step = 1 + Len(fc.ids)
        /\ fc.got = FetchedOk(fc.ids, fc.script, 1)

\* C16 witness: the first of two matches failed and the second was returned.
C16_Witness ==
    /\ FacadeOver("get_recent_matches")
    /\ Len(fc.ids) = 2
    /\ fc.script[2] # "ok"
    /\ fc.got = <<fc.ids[2]>>

\* ------------------------------------------------------------------------
\* Further claims on match ingestion (checked under SpecIngest)
\* ------------------------------------------------------------------------

\* C17: the profile is ensured by universal id before the participant is
\* inserted: whenever update_matches is about to insert a participant row, a
\* profile with the participant's universal id is stored (also when the
\* display name is unknown upstream), and every stored participant row
\* references a stored profile.
C17_ProfileEnsuredByPuuid ==
    /\ \A w \in Workers :
        run[w].pc = "participant"
            => \E profile \in db_summoners : profile.puuid = run[w].part.puuid
    /\ \A p \in db_participants :
        \E profile \in db_summoners : profile.puuid = p.puuid

\* C18: ensuring a participant's profile issues no upstream call: no run
\* waits on riot_api.get_summoner between the match fetches and the end of
\* update_matches, and no run is aborted by an upstream failure there.
C18_NoUpstreamDuringIngestion ==
    \A w \in Workers :
        /\ run[w].pc # "create"
        /\ ~(run[w].pc = "failed" /\ run[w].error = "RiotAPIError")

\* The rune rows written or pending for a participant row.
RunesOf(participant_id) ==
    {r \in db_runes \cup UNION {run[w].pending_runes : w \in Workers} :
        r.participant = participant_id}

\* C19: rune extraction never fails a participant: a payload with two style
\* blocks of distinct style ids yields exactly one rune selection, taken from
\* the first and the second block; a payload with fewer than two blocks (or
\* two blocks of one style id) yields the participant row without a rune
\* selection.
C19_RuneExtraction ==
    /\ \A w \in Workers : ~(run[w].pc = "failed" /\ run[w].failed_at = "runes")
    /\ \A p \in db_participants :
        /\ Cardinality(RunesOf(p.id)) <= 1
        /\ \A r \in RunesOf(p.id) : r.primary_style # r.secondary_style

\* No run is ingesting the match of this row any more.
Abandoned(r) == \A w \in Workers : run[w].match_row # r.id

\* A step of the pipeline seen from a stored match row whose ingestion is
\* over: the row stays, its team and participant rows stay as they are, and a
\* run that reaches its match id only records the match as skipped.
StickyStep ==
    /\ db_matches \subseteq db_matches'
    /\ \A r \in db_matches :
        Abandoned(r) =>
            /\ {t \in db_teams' : t.match = r.id} = TeamsOf(r)
            /\ {p \in db_participants' : p.match = r.id} = ParticipantsOf(r)
            /\ \A w \in Workers :
                (/\ run[w].pc = "loop"
                 /\ run[w].queue # <<>>
                 /\ Head(run[w].queue) = r.match_id
                 /\ run'[w] # run[w])
                => /\ run'[w].pc = "loop"
                   /\ run'[w].match_row = 0
                   /\ run'[w].outcomes =
                        Append(run[w].outcomes, <<r.match_id, "skipped">>)

\* C20: partial failure is sticky. When the ingestion of a match failed after
\* its match row was committed, the row stays stored, every later ingestion
\* of the same match id is skipped by the existence check, and the missing
\* team or participant rows are never written.
C20_PartialFailureSticky == [][StickyStep]_vars

\* C20 witness: a run skipped a match whose stored row has no participant
\* row and is no longer being ingested.
C20_Witness ==
    \E w \in Workers : \E i \in DOMAIN run[w].outcomes :
        /\ run[w].outcomes[i][2] = "skipped"
        /\ \E r \in RecordsOf(run[w].outcomes[i][1]) :
            /\ Abandoned(r)
            /\ ParticipantsOf(r) = {}

\* ------------------------------------------------------------------------
\* Further claims on the transport client (checked under SpecTransport)
\* ------------------------------------------------------------------------

\* The request is over and the response handed to the transport method is
\* the last answer consumed.
DoneOnResponse ==
    /\ req.pc = "done"
    /\ req.script[req.attempts].kind = "response"

LastAnswer == req.script[req.attempts]

\* C24: a 429 response always surfaces as RiotAPIRateLimitError; a
\* Retry-After header holding an integer n gives retry_after = n (30 for
\* "Retry-After: 30"), an absent header gives no retry_after value.
C24_RetryAfterPropagation ==
    (DoneOnResponse /\ LastAnswer.status = 429)
    => /\ req.result.kind = "RiotAPIRateLimitError"
       /\ LastAnswer.retry_after = {} => req.result.retry_after = {}
       /\ LastAnswer.retry_after = {<<"3", "0">>} => req.result.retry_after = {30}
       /\ LastAnswer.retry_after = {<<"0">>} => req.result.retry_after = {0}

\* C25: an attempt that times out is attempted again, up to three attempts in
\* total; RiotAPITimeoutError reaches the caller only when the bound is
\* exhausted.
C25_TimeoutsRetried ==
    (req.pc = "done" /\ req.result.kind = "RiotAPITimeoutError")
    => req.attempts = RetryAttempts

\* C26: parsing fails closed. For each transport method, a 2xx response whose
\* body does not have the expected shape raises the malformed-response error
\* (RiotAPIError), never returns a value, and the request is not retried.
C26_ParsingFailsClosed ==
    (/\ DoneOnResponse
     /\ Is2xx(LastAnswer.status)
     /\ ~ExpectedShape(LastAnswer.body))
    => /\ req.result.kind = "RiotAPIError"
       /\ \A i \in 1..(req.attempts - 1) :
            ~(req.script[i].kind = "response" /\ Is2xx(req.script[i].status))

\* ------------------------------------------------------------------------
\* Claims on what is committed while an operation runs
\* ------------------------------------------------------------------------

\* C21: reconciliation is all-or-nothing. When update_leagues or the commit
\* of its pending changes fails, the stored ranked entries of the player are
\* exactly the entries loaded before the call. (Checked under SpecLeagues.)
C21_ReconciliationAllOrNothing ==
    lg.pc = "raised" => StoredLeagues = lg.loaded

\* C22: isolation from concurrent readers. The committed tables, which are
\* what a concurrent reader sees, never hold a match row without its teams
\* and participants: no run is still to write a team or participant of a
\* stored match row. (Checked under SpecIngest.)
C22_ReadersSeeWholeMatches ==
    \A r \in db_matches :
        /\ TeamsOf(r) # {}
        /\ ParticipantsOf(r) # {}
        /\ \A w \in Workers :
            run[w].match_row = r.id
                => run[w].teams_left = <<>> /\ run[w].parts_left = 0

\* ------------------------------------------------------------------------
\* Claims on the domain clients and the routing (checked under SpecClients)
\* ------------------------------------------------------------------------

\* Empty, or made of blanks only.
AllBlank(text) == \A i \in DOMAIN text : text[i] = " "

\* The call in progress was given a universal id of the wrong length, or an
\* empty or blank display name or tag.
MalformedInput ==
    /\ cl.pc # "idle"
    /\ \/ cl.op \in PuuidOps \cup PuuidRegionOps /\ cl.puuid # 78
       \/ /\ cl.op = "AccountClient.get_by_riot_id"
          /\ AllBlank(cl.game_name) \/ AllBlank(cl.tag_line)

\* C23: validation precedes dispatch. A client call given a universal id
\* whose length is not 78, or an empty or blank display name or tag, ends with
\* RiotAPIValidationError without any upstream request, and the failed call
\* is not attempted again: its only next step is the return to the caller.
C23_ValidationPrecedesDispatch ==
    /\ [](MalformedInput
            => /\ cl.pc = "done"
               /\ cl.error = "RiotAPIValidationError"
               /\ cl.requests = 0)
    /\ [][MalformedInput => cl' = IdleClient]_vars

\* C23 witness: a call with a known region code and a universal id of 77
\* characters was rejected before any request.
C23_Witness ==
    /\ cl.pc = "done"
    /\ cl.op = "LeagueClient.get_entries_by_puuid_with_region"
    /\ cl.code = "euw"
    /\ cl.puuid = 77
    /\ cl.error = "RiotAPIValidationError"
    /\ cl.requests = 0

\* The regional routing value of some region codes, as config.py gives them.
ExpectedRegion(code) ==
    IF code \in {"euw", "euw1"} THEN "europe"
    ELSE IF code \in {"oce", "oc1"} THEN "sea"
    ELSE IF code = "kr" THEN "asia"
    ELSE ""

MatchRegionOps ==
    {"MatchClient.get_match_ids_by_puuid_with_region",
     "MatchClient.get_match_with_region"}

\* C27: routing totality and round trip. Every platform code maps to exactly
\* one regional code; for every region code of REGION_TO_PLATFORM (in any
\* letter case) region code -> platform -> regional routing is defined and
\* gives the one value of the tables; for a code outside the set the
\* conversions raise RiotAPIValidationError and yield no routing value.
C27_RoutingTotalAndStable ==
    /\ DOMAIN PLATFORM_TO_REGION = RiotPlatforms
    /\ \A platform \in RiotPlatforms : PLATFORM_TO_REGION[platform] \in RiotRegions
    /\ \A code \in DOMAIN REGION_TO_PLATFORM : REGION_TO_PLATFORM[code] \in RiotPlatforms
    /\ (cl.pc # "idle" /\ cl.op \in MatchRegionOps)
        => IF Lower(cl.code) \in DOMAIN REGION_TO_PLATFORM
           THEN cl.routing \in RiotRegions /\ cl.routing = ExpectedRegion(Lower(cl.code))
           ELSE /\ cl.routing = ""
                /\ cl.error = "RiotAPIValidationError"
                /\ cl.requests = 0
    /\ (cl.pc # "idle" /\ cl.op = "MatchClient._region_code_to_platform")
        => IF Lower(cl.code) \in DOMAIN REGION_TO_PLATFORM
           THEN cl.routing \in RiotPlatforms /\ cl.error = "none"
           ELSE cl.routing = "" /\ cl.error = "RiotAPIValidationError"
    /\ (cl.pc # "idle" /\ cl.op = "MatchClient._platform_to_region")
        => IF cl.code \in RiotPlatforms
           THEN cl.routing \in RiotRegions /\ cl.error = "none"
           ELSE cl.routing = "" /\ cl.error = "RiotAPIValidationError"

\* C27 witness: get_match_with_region was routed from region code "oce"
\* through platform oc1 to the regional value sea, and its request was sent.
C27_Witness ==
    /\ cl.pc = "done"
    /\ cl.op = "MatchClient.get_match_with_region"
    /\ cl.code = "oce"
    /\ cl.routing = "sea"
    /\ cl.requests = 1

\* The places that convert a region code, and the one that converts the
\* platform prefix of a match id.
RegionPlaces ==
    PuuidRegionOps \cup {"MatchClient.get_match_with_region",
                         "MatchClient._region_code_to_platform",
                         "MatchesController.get_recent_matches"}

PlatformPlaces == {"RiotAPI.get_match_by_id"}

KnownCode(op, code) ==
    IF op \in RegionPlaces THEN Lower(code) \in DOMAIN REGION_TO_PLATFORM
    ELSE Lower(code) \in RiotPlatforms

\* C28: routing look-up is case-insensitive and never defaults. At every
\* place that converts a code, a code that differs only in letter case from a
\* known code gives the routing value of the known code, and a code outside
\* the closed set raises the unknown-code error and yields no routing value.
C28_CaseInsensitiveNoDefault ==
    (cl.pc # "idle" /\ cl.op \in RegionPlaces \cup PlatformPlaces)
    => IF KnownCode(cl.op, cl.code)
       THEN /\ cl.routing # ""
            /\ cl.routing = Conversion(cl.op, Lower(cl.code)).value
       ELSE /\ cl.routing = ""
            /\ cl.error = "RiotAPIValidationError"

\* ------------------------------------------------------------------------
\* Claims on cancellation (SpecUpdate) and on identity (SpecLookup)
\* ------------------------------------------------------------------------

\* C29: cancellation aborts before any commit. When update is cancelled at
\* one of its awaited upstream calls, no write of that call has been
\* committed.
C29_CancellationBeforeCommit ==
    upd.pc = "cancelled" => ~upd.wrote

\* C30: identity is the universal id. At most one profile is stored per
\* universal id, and when the upstream resolves the searched display name to
\* an account that is already cached (under another name), find_or_create
\* returns the cached profile of that account.
C30_IdentityIsPuuid ==
    /\ \A r1, r2 \in db_summoners : r1.puuid = r2.puuid => r1 = r2
    /\ (foc.pc = "returned" /\ foc.at_riot \in Puuids /\ foc.cached # {})
        => foc.result = foc.cached

\* ------------------------------------------------------------------------
\* Error translation, upstream call order of the facade
\* ------------------------------------------------------------------------

\* The classes whose translation must not show the message.
OpaqueClasses ==
    {"RiotAPIAuthenticationError", "RiotAPIRateLimitError", "RiotAPITimeoutError",
     "RiotAPIServerError", "RiotAPIError"}

\* C31: for an authentication, rate-limit, timeout, server or unexpected
\* error, the status and the detail text riot_exception_to_http returns are
\* those of every other error of the same class, whatever its message, and
\* the detail is not the message.
C31_TranslationHidesMessage ==
    tr.pc = "translated" =>
        \A e \in tr.exc, h \in tr.http :
            e.class \in OpaqueClasses =>
                /\ h.detail # e.message
                /\ \A other \in RiotExceptions :
                    other.class = e.class =>
                        /\ RiotExceptionToHttp(other).status_code = h.status_code
                        /\ RiotExceptionToHttp(other).detail = h.detail

C31_Witness ==
    /\ tr.pc = "translated"
    /\ \E e \in tr.exc, h \in tr.http :
        /\ e.class = "RiotAPIAuthenticationError"
        /\ e.message = "X-Riot-Token RGAPI-secret rejected"
        /\ h.status_code = 503

\* The client calls get_summoner has issued so far, in the order of issue.
IssuedCalls == SubSeq(ProfileSteps, 1, fc.step)

\* C32: get_summoner issues its client calls one after the other in the
\* order identity, active region, profile, ranked entries: a call is issued
\* only when every earlier call returned successfully, one call per step,
\* and after a failed call none follows.
C32_SequentialUpstreamCalls ==
    /\ [](fc.op = "get_summoner" =>
            /\ fc.step <= Len(ProfileSteps)
            /\ \A i \in 1..(fc.step - 1) : fc.script[i] = "ok"
            /\ fc.got = SelectSeq(IssuedCalls,
                                  LAMBDA c : \E i \in 1..fc.step :
                                      ProfileSteps[i] = c /\ fc.script[i] = "ok")
            /\ fc.pc = "raised" => fc.script[fc.step] # "ok"
            /\ fc.pc = "returned" => fc.step = Len(ProfileSteps))
    /\ [][fc.op = "get_summoner" /\ fc'.op = "get_summoner" =>
            \/ fc'.step = fc.step
            \/ fc.pc = "running" /\ fc'.step = fc.step + 1]_vars

C32_Witness ==
    /\ fc.op = "get_summoner"
    /\ fc.pc = "raised"
    /\ fc.step = 2
    /\ fc.got = <<"account">>
    /\ fc.script[3] = "ok"

\* ------------------------------------------------------------------------
\* Ingestion: order of the inserts, linkage of the participants
\* ------------------------------------------------------------------------

\* The steps of update_matches that deal with one participant.
ParticipantSteps == {"find", "create", "insert_summoner", "participant"}

PendingRunes == UNION {run[w].pending_runes : w \in Workers}

\* What is stored is stored in order: a team has its match, a participant
\* its match, a rune page its participant; a worker that is at a participant
\* has inserted the match and every team of the payload.
InsertedInOrder ==
    /\ \A t \in db_teams : \E m \in db_matches : m.id = t.match
    /\ \A q \in db_participants : \E m \in db_matches : m.id = q.match
    /\ \A r \in db_runes \cup PendingRunes :
        \E q \in db_participants : q.id = r.participant
    /\ \A w \in Workers :
        run[w].pc \in ParticipantSteps =>
            /\ run[w].teams_left = <<>>
            /\ \E m \in db_matches : m.id = run[w].match_row

\* A step inserts a row only after the rows that must precede it.
InsertsInOrder ==
    /\ \A t \in db_teams' \ db_teams :
        /\ \E m \in db_matches : m.id = t.match
        /\ ~\E q \in db_participants' : q.match = t.match
    /\ \A q \in db_participants' \ db_participants :
        /\ run[q.by].pc = "participant"
        /\ run[q.by].part.puuid = q.puuid
        /\ run[q.by].teams_left = <<>>
        /\ \E m \in db_matches : m.id = q.match
        /\ ~\E r \in db_runes \cup PendingRunes : r.participant = q.id
    /\ \A r \in db_runes' \ db_runes :
        \E q \in db_participants : q.id = r.participant

\* C33: in update_matches the match row is inserted before any team row of
\* that match, every team row of the payload before any participant row, and
\* for each participant the profile-ensure step comes before the insert of
\* the participant row, which comes before the insert of its rune page.
C33_IngestionStepOrder == []InsertedInOrder /\ [][InsertsInOrder]_vars

C33_Witness ==
    \E r \in db_runes, q \in db_participants :
        /\ q.id = r.participant
        /\ \A k \in TeamIds : \E t \in db_teams : t.match = q.match /\ t.team_id = k

\* Every stored participant row points to a stored match and to a team row
\* of that match.
LinkedParticipants ==
    \A q \in db_participants :
        /\ \E m \in db_matches : m.id = q.match
        /\ \E t \in db_teams : t.id = q.team /\ t.match = q.match

\* A participant row is inserted for the match being ingested and for the
\* team that carries the participant's team id of the payload.
LinksParticipant ==
    \A q \in db_participants' \ db_participants :
        /\ \E m \in db_matches : m.id = q.match /\ m.match_id = run[q.by].match_id
        /\ \E t \in db_teams :
            /\ t.id = q.team
            /\ t.match = q.match
            /\ t.team_id = run[q.by].part.team_id

\* C38: every participant row update_matches persists references the match
\* row being ingested and a team row of that same match, the one whose team
\* id is the participant's team id in the payload; none is persisted with a
\* missing team or with a team of another match.
C38_ParticipantLinkage == []LinkedParticipants /\ [][LinksParticipant]_vars

C38_Witness ==
    \E q \in db_participants, t \in db_teams :
        /\ t.id = q.team
        /\ t.team_id = 200
        /\ \E o \in db_teams : o.match = q.match /\ o.team_id = 100

\* ------------------------------------------------------------------------
\* Profile refresh: bursts of reads, the last-synced timestamp
\* ------------------------------------------------------------------------

\* update() starts on the cached profile within the ttl of the last
\* completed refresh.
StartsInWindow ==
    /\ upd.pc = "idle"
    /\ upd'.pc # "idle"
    /\ upd'.cached # {}
    /\ refreshed_at >= 0
    /\ clock - refreshed_at < SummonerTtlSeconds

\* C34: once update() has completed a refresh of the player, every update()
\* of that player that starts before the ttl has elapsed since that refresh
\* issues no upstream call: it is answered from the cache, and only a call
\* that found the profile stale ever issues one.
C34_BurstBound ==
    /\ [][StartsInWindow =>
            /\ ~upd'.expired
            /\ upd'.pc = "returned"
            /\ upd'.upstream_calls = 0]_vars
    /\ [](upd.upstream_calls > 0 => upd.expired)
    /\ [][upd'.upstream_calls > upd.upstream_calls =>
            upd.pc \in {"idle", "await_profile"} /\ upd'.expired]_vars

C34_Witness ==
    /\ upd.pc = "returned"
    /\ upd.cached # {}
    /\ refreshed_at >= 0
    /\ clock > refreshed_at
    /\ clock - refreshed_at < SummonerTtlSeconds
    /\ upd.upstream_calls = 0

\* C35: when update() on a stale profile fails during reconciliation or
\* match ingestion, the stored last-synced timestamp of the profile still
\* has the value it had when update() started.
C35_TimestampOnlyOnCompletion ==
    (upd.pc = "raised" /\ upd.expired) =>
        \A c \in upd.cached :
            \E r \in db_summoners : r.puuid = c.puuid /\ r.updated_at = c.updated_at

\* ------------------------------------------------------------------------
\* Shared HTTP session
\* ------------------------------------------------------------------------

\* The ClientSession objects made so far that are not closed.
OpenSessions == {id \in 1..ss.created : ~Closed(ss, id)}

InitReturned(t) == ss.task[t].op = "init_session" /\ ss.task[t].pc = "returned"

\* At most one session is open, and it is the shared one; two init_session
\* calls hold the same session unless one of the two has been closed since.
OneOpenSession ==
    /\ Cardinality(OpenSessions) <= 1
    /\ OpenSessions \subseteq {ss.session}
    /\ \A t, u \in Tasks :
        (InitReturned(t) /\ InitReturned(u) /\ ss.task[t].result # ss.task[u].result)
            => \E v \in {t, u} : Closed(ss, ss.task[v].result)

\* init_session returns the shared session, open; get_session returns the
\* open session when there is one and raises RuntimeError when there is none.
SessionCallsAnswer ==
    \A t \in Tasks :
        /\ (~InitReturned(t) /\ InitReturned(t)') =>
                /\ ss'.task[t].result = ss'.session
                /\ ss'.task[t].result \in OpenSessions'
        /\ (ss.task[t].pc = "idle" /\ ss'.task[t].op = "get_session") =>
                IF OpenSessions = {}
                THEN ss'.task[t].pc = "raised" /\ ss'.task[t].error = "RuntimeError"
                ELSE ss'.task[t].pc = "returned" /\ ss'.task[t].result \in OpenSessions

\* C36: in every interleaving of init_session and close_session calls at
\* most one shared session is open at a time and init_session calls that run
\* together return the same session; get_session returns the open session
\* and raises RuntimeError exactly when none is open.
C36_SessionLifecycle == []OneOpenSession /\ [][SessionCallsAnswer]_vars

C36_Witness ==
    /\ ss.created = 2
    /\ \E t, u \in Tasks :
        /\ t # u
        /\ InitReturned(t)
        /\ InitReturned(u)
        /\ ss.task[t].result = 2
        /\ ss.task[u].result = 2
    /\ \E v \in Tasks : ss.task[v].op = "close_session" /\ ss.task[v].pc = "lock"

\* C37: every request of a domain client goes through a session that is
\* open when the request is made, also for a client constructed before
\* close_session and init_session replaced the shared session.
C37_NoRequestOnClosedSession ==
    \A t \in Tasks :
        ss.task[t].op = "RiotAPIBase._request" => ss.task[t].error = "none"

====
